---- MODULE Spec2Model ----
(***************************************************************************)
(* A model of the news-to-audio pipeline of ai-news-song: the length cap   *)
(* of the Lyric Synthesizer, the model fallback chain, the job submission  *)
(* endpoint, the status endpoint and the audio relay.                      *)
(*                                                                         *)
(* Two variants of the server file are modelled where they differ:         *)
(*   "part_000"  src/unnamed/part_000 lines 1..660                         *)
(*   "part_002"  src/unnamed/part_002 (the latest, with the podcast code)  *)
(*                                                                         *)
(* A text is a sequence of characters; a character is a one-element        *)
(* string, or a token "U+xxxx" standing for that one code unit.            *)
(***************************************************************************)
EXTENDS Integers, Sequences, FiniteSets, TLC

VARIABLES
    variant,      \* which variant of the server file runs
    \* ---- enforcePromptLimit applied to one input
    limPc,        \* "in" before the call, "out" after it
    limText,      \* the argument text
    limMax,       \* the argument max
    limOut,       \* the returned text
    \* ---- process configuration
    envOpenRouterKey,  \* process.env.OPEN_ROUTER_KEY is set
    envSunoKey,        \* one of suno_api, SUNO_API, SUNO_API_KEY is set
    \* ---- one synthesis call (the loop over LYRIC_MODELS)
    synPath,      \* "summarize", "lyrics", or "none" when no call was made
    synPc,        \* "idle", "call", "inflight", "sleep", "returned", "threw"
    synModel,     \* index in LYRIC_MODELS of the model being tried
    synI,         \* loop variable i of callOpenRouterWithRetries
    synDelay,     \* variable delay of callOpenRouterWithRetries
    synInflight,  \* the model requests awaiting their response
    synTrace,     \* per model: 0 for a request issued, n > 0 for a sleep of n ms
    synLast,      \* per model: the answer to its latest request, without the content
    synOnly5xxNet,\* per model: every answer so far was a 5xx or a network failure
    synContent,   \* per model: the content of its latest 2xx answer that had text
    synDigest,    \* newsDigest of generateLyricsWithOpenRouter
    synResult,    \* the text the call returned
    \* ---- one request to POST /api/generate-song
    gsPc,         \* "idle", "article", "news", "synth", "create", "done", "unhandled"
    gsStatus,     \* the status of the response, 0 while there is none
    gsPrompt,     \* the prompt of the create call
    gsCreates,    \* number of create calls sent to the synthesis service
    \* ---- requests to GET /api/proxy-audio, one after the other
    rlPc,         \* "idle", "fetch", "done"
    rlSrc,        \* the src query value of the current request
    rlStatus,     \* the status of its response, 0 while there is none
    rlFetches,    \* outbound fetches issued for the current request
    rlStreamed,   \* the upstream body is piped to the client
    rlServed,     \* requests completed so far
    \* ---- one request to GET /api/song-status
    stPc,         \* "idle", "polling", "listing", "done"
    stTaskIds,    \* parseIds(req.query.task_ids || req.query.ids)
    stClipIds,    \* parseIds(req.query.clip_ids)
    stResults,    \* per task id: what its query resolved to, kind "none" before
    stStatus,     \* the status of the response, 0 while there is none
    stError,      \* the error of the response, "" if none
    stData,       \* the job records of the response
    stTaskCalls,  \* per-task queries sent to the synthesis service
    stListCalls,  \* list calls sent to the synthesis service
    stListed,     \* the data array of the list call's answer
    \* ---- POST /api/generate-podcast, one request after the other
    gRaw,         \* the global `raw` that planPodcastWithOpenRouter assigns
    pd,           \* the request being handled: position, input, locals, response
    pdServed,     \* requests completed so far
    \* ---- one call of pollForAudio
    pl,           \* position, clock, arguments, requests sent, value returned
    \* ---- one 2xx create response on its way to the client
    sb,           \* position, path, parsed body, response
    \* ---- one call of parseFeed
    pf,           \* position, the items of the feed, limit, the stories returned
    \* ---- one request to GET /api/news-headlines
    nw,           \* position, per-source fetches, merged stories, loop state, response
    \* ---- one call of fetchArticleContent
    ar,           \* position, upstream status, page, error, text returned
    \* ---- normalizeSunoAudioUrl applied twice
    nz            \* position, input, option, first and second result

limVars == <<limPc, limText, limMax, limOut>>
envVars == <<envOpenRouterKey, envSunoKey>>
synVars == <<synPath, synPc, synModel, synI, synDelay, synInflight, synTrace,
             synLast, synOnly5xxNet, synContent, synDigest, synResult>>
gsVars == <<gsPc, gsStatus, gsPrompt, gsCreates>>
rlVars == <<rlPc, rlSrc, rlStatus, rlFetches, rlStreamed, rlServed>>
stVars == <<stPc, stTaskIds, stClipIds, stResults, stStatus, stError, stData,
            stTaskCalls, stListCalls, stListed>>
pdVars == <<gRaw, pd, pdServed>>
vars == <<variant, limVars, envVars, synVars, gsVars, rlVars, stVars, pdVars, pl, sb, pf, nw, ar, nz>>

\* what the actions of one component leave alone
othersOfLim == <<envVars, synVars, gsVars, rlVars, stVars, pdVars, pl, sb, pf, nw, ar, nz>>
othersOfGs == <<variant, limVars, envVars, rlVars, stVars, pdVars, pl, sb, pf, nw, ar, nz>>
othersOfRl == <<variant, limVars, envVars, synVars, gsVars, stVars, pdVars, pl, sb, pf, nw, ar, nz>>
othersOfSt == <<variant, limVars, envVars, synVars, gsVars, rlVars, pdVars, pl, sb, pf, nw, ar, nz>>
othersOfPl == <<variant, limVars, envVars, synVars, gsVars, rlVars, stVars, pdVars, sb, pf, nw, ar, nz>>
othersOfSb == <<variant, limVars, envVars, synVars, gsVars, rlVars, stVars, pdVars, pl, pf, nw, ar, nz>>
othersOfPd == <<variant, limVars, envVars, synVars, gsVars, rlVars, stVars, pl, sb, pf, nw, ar, nz>>
othersOfPf == <<variant, limVars, envVars, synVars, gsVars, rlVars, stVars, pdVars, pl, sb, nw, ar, nz>>
othersOfNw == <<variant, limVars, envVars, synVars, gsVars, rlVars, stVars, pdVars, pl, sb, pf, ar, nz>>
othersOfAr == <<variant, limVars, envVars, synVars, gsVars, rlVars, stVars, pdVars, pl, sb, pf, nw, nz>>
othersOfNz == <<variant, limVars, envVars, synVars, gsVars, rlVars, stVars, pdVars, pl, sb, pf, nw, ar>>

VARIANTS == {"part_000", "part_002"}

(***************************************************************************)
(* Bounds                                                                  *)
(***************************************************************************)
MaxTextLen == 4      \* texts enumerated exhaustively up to this length
MaxCap == 3          \* caps enumerated exhaustively, 1..MaxCap
MaxTaskIds == 2        \* task ids in one status request
MaxPodcastRequests == 2  \* podcast requests served one after the other
MaxTimeout == 4          \* timeoutMs of pollForAudio, 0..MaxTimeout
MaxInterval == 2         \* intervalMs of pollForAudio, 0..MaxInterval
MaxRequestTime == 1      \* time one status request takes, 0..MaxRequestTime
MaxItems == 2            \* elements of the list of a create response
MaxFeedItems == 3        \* <item> elements of one feed
MaxLimit == 3            \* the limit argument of parseFeed, 0..MaxLimit
MaxParagraphs == 2       \* <p> elements of one page
MaxRelayRequests == 2  \* relay requests served one after the other
MaxModels == 2       \* the first MaxModels entries of LYRIC_MODELS are tried

(***************************************************************************)
(* Characters and JavaScript string operations                             *)
(***************************************************************************)
WS == {" ", "\n"}
WordChars ==
    {"a", "b", "c", "d", "e", "f", "g", "h", "i", "j", "k", "l", "m", "n", "o",
     "p", "q", "r", "s", "t", "u", "v", "w", "x", "y", "z", "H", "S", "N",
     "0", "1", "2", "3", "4", "5", "6", "7", "8", "9", "_"}

IsWs(c) == c \in WS

\* the index of the last character of s[1..i] that is not whitespace, or 0
RECURSIVE LastNonWs(_, _)
LastNonWs(s, i) ==
    IF i = 0 THEN 0
    ELSE IF ~IsWs(s[i]) THEN i
    ELSE LastNonWs(s, i - 1)

\* the index of the first character of s[i..] that is not whitespace, or
\* Len(s) + 1
RECURSIVE FirstNonWs(_, _)
FirstNonWs(s, i) ==
    IF i > Len(s) THEN i
    ELSE IF ~IsWs(s[i]) THEN i
    ELSE FirstNonWs(s, i + 1)

\* String.prototype.trimEnd, and replace(/\s+$/g, '')
TrimEnd(s) == SubSeq(s, 1, LastNonWs(s, Len(s)))

\* String.prototype.trim
Trim(s) == SubSeq(s, FirstNonWs(s, 1), LastNonWs(s, Len(s)))

\* String.prototype.slice(0, end), for end >= 0
Slice0(s, end) == SubSeq(s, 1, IF end < Len(s) THEN end ELSE Len(s))

\* /\w/.test(s)
HasWordChar(s) == \E i \in 1..Len(s) : s[i] \in WordChars

\* n repetitions of the character c
Pad(c, n) == [i \in 1..n |-> c]

(***************************************************************************)
(* enforcePromptLimit                                                      *)
(***************************************************************************)
SUNO_PROMPT_MAX_CHARS == 3000

\* the literal appended on truncation: one character, U+2026
ELLIPSIS_part_000 == <<"U+2026">>
\* the literal appended on truncation as the bytes of part_002 decode:
\* c3 a2, e2 82 ac, c2 a6 are the three characters U+00E2 U+20AC U+00A6
ELLIPSIS_part_002 == <<"U+00E2", "U+20AC", "U+00A6">>

ELLIPSIS == IF variant = "part_002" THEN ELLIPSIS_part_002 ELSE ELLIPSIS_part_000

\* a wrong variant: the slice keeps max characters instead of max - 1
enforcePromptLimit_SliceMax(text, max) ==
    LET normalised == Trim(TrimEnd(text))
    IN  IF Len(normalised) <= max
        THEN normalised
        ELSE TrimEnd(Slice0(normalised, max)) \o ELLIPSIS

enforcePromptLimit(text, max) ==
    LET normalised == Trim(TrimEnd(text))
    IN  IF Len(normalised) <= max
        THEN normalised
        ELSE TrimEnd(Slice0(normalised, max - 1)) \o ELLIPSIS

(***************************************************************************)
(* Inputs of the length cap: every text over a small alphabet up to        *)
(* MaxTextLen with every cap up to MaxCap, and texts around the program's  *)
(* cap of 3000.                                                            *)
(***************************************************************************)
SmallAlphabet == {"a", "b", " "}

SmallTexts == UNION {[1..n -> SmallAlphabet] : n \in 0..MaxTextLen}

LongTexts ==
    { Pad("a", SUNO_PROMPT_MAX_CHARS - 1),
      Pad("a", SUNO_PROMPT_MAX_CHARS),
      Pad("a", SUNO_PROMPT_MAX_CHARS + 1),
      Pad("a", SUNO_PROMPT_MAX_CHARS) \o <<" ", " ">>,
      Pad("a", SUNO_PROMPT_MAX_CHARS - 2) \o <<" ", "b", "b">>,
      <<" ">> \o Pad("b", SUNO_PROMPT_MAX_CHARS + 2) }

LimInit ==
    /\ limPc = "in"
    /\ \/ limText \in SmallTexts /\ limMax \in 1..MaxCap
       \/ limText \in LongTexts /\ limMax = SUNO_PROMPT_MAX_CHARS
    /\ limOut = <<>>

LimIdle ==
    /\ limPc = "idle"
    /\ limText = <<>>
    /\ limMax = 0
    /\ limOut = <<>>

ApplyLimit ==
    /\ limPc = "in"
    /\ limOut' = enforcePromptLimit(limText, limMax)
    /\ limPc' = "out"
    /\ UNCHANGED <<variant, limText, limMax, othersOfLim>>

\* the output of one call handed to a second call with the same cap, as
\* /api/generate-song does with the synthesizer's result
ReapplyLimit ==
    /\ limPc = "out"
    /\ limOut' = enforcePromptLimit(limOut, limMax)
    /\ limPc' = "out2"
    /\ UNCHANGED <<variant, limText, limMax, othersOfLim>>

(***************************************************************************)
(* Process configuration                                                   *)
(***************************************************************************)
EnvInit == envOpenRouterKey \in BOOLEAN /\ envSunoKey \in BOOLEAN
EnvIdle == envOpenRouterKey = TRUE /\ envSunoKey = TRUE

(***************************************************************************)
(* The Lyric Synthesizer: callOpenRouterOnce, callOpenRouterWithRetries    *)
(* and the loops of summarizeArticleWithOpenRouter and                     *)
(* generateLyricsWithOpenRouter                                            *)
(***************************************************************************)
LYRIC_MODELS_ALL ==
    << "openai/gpt-4o-mini", "anthropic/claude-3.5-sonnet",
       "google/gemini-1.5-flash", "meta/llama-3.1-8b-instruct",
       "deepseek/deepseek-chat-v3.1:free",
       "meta-llama/llama-3.1-8b-instruct:free" >>

LYRIC_MODELS ==
    SubSeq(LYRIC_MODELS_ALL, 1,
           IF MaxModels < Len(LYRIC_MODELS_ALL) THEN MaxModels
           ELSE Len(LYRIC_MODELS_ALL))

ModelIdx == 1..Len(LYRIC_MODELS)

\* the attempts argument both loops pass to callOpenRouterWithRetries
ATTEMPTS_part_000 == 3
ATTEMPTS_part_002 == 1
AttemptsArg == IF variant = "part_002" THEN ATTEMPTS_part_002 ELSE ATTEMPTS_part_000

INITIAL_DELAY == 750

\* what the model backend can answer to one request; a timeout of the
\* request (the AbortController firing) is a network failure
ModelTexts ==
    { <<"a", "b">>,
      <<" ", "a", " ">>,
      <<"?", "!">>,
      Pad("a", SUNO_PROMPT_MAX_CHARS + 1),
      Pad("a", SUNO_PROMPT_MAX_CHARS - 2) \o <<" ", "b", "b">> }

ModelResponses ==
    {[kind |-> "http", status |-> 200, content |-> t] : t \in ModelTexts \cup {<<>>, <<" ">>}}
    \cup {[kind |-> "http", status |-> st, content |-> <<>>] : st \in {404, 500}}
    \cup {[kind |-> "network", status |-> 0, content |-> <<>>]}

\* res.ok
HttpOk(status) == status >= 200 /\ status <= 299

\* a wrong variant: empty content carries the status of the response
callOpenRouterOnce_EmptyTerminal(resp) ==
    IF resp.kind = "network"
    THEN [ok |-> FALSE, status |-> 0, content |-> <<>>]
    ELSE IF ~HttpOk(resp.status) \/ Trim(resp.content) = <<>>
    THEN [ok |-> FALSE, status |-> resp.status, content |-> <<>>]
    ELSE [ok |-> TRUE, status |-> resp.status, content |-> Trim(resp.content)]

\* callOpenRouterOnce: the content, or the error thrown; status 0 is an
\* error without a status property
callOpenRouterOnce(resp) ==
    IF resp.kind = "network"
    THEN [ok |-> FALSE, status |-> 0, content |-> <<>>]
    ELSE IF ~HttpOk(resp.status)
    THEN [ok |-> FALSE, status |-> resp.status, content |-> <<>>]
    ELSE IF Trim(resp.content) = <<>>
    THEN [ok |-> FALSE, status |-> 0, content |-> <<>>]
    ELSE [ok |-> TRUE, status |-> resp.status, content |-> Trim(resp.content)]

\* a wrong variant: every failure is retried
Retryable_Always(status) == TRUE

\* callOpenRouterWithRetries: const retryable = status >= 500 || status === 0
Retryable(status) == status >= 500 \/ status = 0

\* a wrong variant: the loop allows one attempt more
GivesUp_OneLate(status, i, attempts) == ~Retryable(status) \/ i = attempts

\* callOpenRouterWithRetries: if (!retryable || i === attempts - 1) throw err
GivesUp(status, i, attempts) == ~Retryable(status) \/ i = attempts - 1

\* a wrong variant: no text ends the loop
Accepted_Never(path, content) == FALSE

\* the loops: summarize takes any returned text and breaks; lyrics returns
\* only if (lyrics && /\w/.test(lyrics))
Accepted(path, content) ==
    IF path = "summarize" THEN TRUE
    ELSE content # <<>> /\ HasWordChar(content)

(***************************************************************************)
(* formatStoriesForModel                                                   *)
(***************************************************************************)
Digit(n) == <<"0", "1", "2", "3", "4", "5", "6", "7", "8", "9">>[n + 1]

RECURSIVE Join(_, _)
Join(parts, sep) ==
    IF parts = <<>> THEN <<>>
    ELSE IF Len(parts) = 1 THEN parts[1]
    ELSE parts[1] \o sep \o Join(Tail(parts), sep)

FormatStory(story, index) ==
    LET prefix == IF story.source # <<>>
                  THEN <<"[">> \o story.source \o <<"]">>
                  ELSE <<"H", "e", "a", "d", "l", "i", "n", "e">>
        summary == IF story.summary # <<>>
                   THEN <<"S", "u", "m", "m", "a", "r", "y", ":", " ">> \o story.summary
                   ELSE <<>>
        first == Trim(<<Digit(index + 1), ".", " ">> \o prefix \o <<" ">> \o story.headline)
        parts == IF summary # <<>> THEN <<first, summary>> ELSE <<first>>
    IN  Join(SelectSeq(parts, LAMBDA q : q # <<>>), <<" ", "U+2014", " ">>)

formatStoriesForModel(stories) ==
    Join(SelectSeq([k \in 1..Len(stories) |-> FormatStory(stories[k], k - 1)],
                   LAMBDA q : q # <<>>),
         <<"\n">>)

Story(source, headline, summary) ==
    [source |-> source, headline |-> headline, summary |-> summary]

\* what fetchTopNews(5) can return
StoryLists ==
    { <<>>,
      <<Story(<<"S">>, <<"a", " ", "b">>, <<>>)>>,
      <<Story(<<"S">>, <<"a">>, <<>>), Story(<<>>, <<"c">>, <<"d">>)>>,
      <<Story(<<"N">>, <<"e">>, Pad("a", SUNO_PROMPT_MAX_CHARS))>> }

\* what fetchArticleContent can return
ArticleTexts == { <<"a", "b", "c">>, <<>> }

(***************************************************************************)
(* The synthesis call as a state machine                                   *)
(***************************************************************************)
\* an answer as recorded per model: its kind, its status and whether its
\* content is non-empty after trimming
NoAnswer == [kind |-> "none", status |-> 0, text |-> FALSE]
Summary(resp) ==
    [kind |-> resp.kind, status |-> resp.status, text |-> Trim(resp.content) # <<>>]

SynIdle ==
    /\ synPath = "none"
    /\ synPc = "idle"
    /\ synModel = 0
    /\ synI = 0
    /\ synDelay = 0
    /\ synInflight = {}
    /\ synTrace = [m \in ModelIdx |-> <<>>]
    /\ synLast = [m \in ModelIdx |-> NoAnswer]
    /\ synOnly5xxNet = [m \in ModelIdx |-> TRUE]
    /\ synContent = [m \in ModelIdx |-> <<>>]
    /\ synDigest = <<>>
    /\ synResult = <<>>

GsIdle ==
    /\ gsPc = "idle"
    /\ gsStatus = 0
    /\ gsPrompt = <<>>
    /\ gsCreates = 0

\* a wrong variant: after the last model both paths throw
SynNextModel_AlwaysThrows ==
    IF synModel < Len(LYRIC_MODELS)
    THEN /\ synModel' = synModel + 1
         /\ synI' = 0
         /\ synDelay' = INITIAL_DELAY
         /\ synPc' = "call"
         /\ synResult' = synResult
    ELSE /\ UNCHANGED <<synModel, synI, synDelay>>
         /\ synPc' = "threw" /\ synResult' = synResult

\* the loop over LYRIC_MODELS steps to the model after synModel, or ends:
\* summarize throws 'no response from openrouter', lyrics returns the capped
\* digest
SynNextModel ==
    IF synModel < Len(LYRIC_MODELS)
    THEN /\ synModel' = synModel + 1
         /\ synI' = 0
         /\ synDelay' = INITIAL_DELAY
         /\ synPc' = "call"
         /\ synResult' = synResult
    ELSE /\ UNCHANGED <<synModel, synI, synDelay>>
         /\ IF synPath = "summarize"
            THEN synPc' = "threw" /\ synResult' = synResult
            ELSE /\ synPc' = "returned"
                 /\ synResult' = enforcePromptLimit(synDigest, SUNO_PROMPT_MAX_CHARS)

\* callOpenRouterOnce issues its fetch
SynIssue ==
    /\ synPc = "call"
    /\ synInflight' = synInflight \cup {<<synModel, synI>>}
    /\ synTrace' = [synTrace EXCEPT ![synModel] = Append(@, 0)]
    /\ synPc' = "inflight"
    /\ UNCHANGED <<synPath, synModel, synI, synDelay, synLast, synOnly5xxNet,
                   synContent, synDigest, synResult>>
    /\ UNCHANGED <<gsVars, othersOfGs>>

\* the fetch of callOpenRouterOnce settles, and the code runs up to its next
\* await or to the end of the synthesis call
SynRespond ==
    /\ synPc = "inflight"
    /\ \E resp \in ModelResponses :
         LET r == callOpenRouterOnce(resp)
         IN  /\ synInflight' = synInflight \ {<<synModel, synI>>}
             /\ synLast' = [synLast EXCEPT ![synModel] = Summary(resp)]
             /\ synOnly5xxNet' = [synOnly5xxNet EXCEPT ![synModel] =
                    @ /\ (resp.kind = "network" \/ resp.status >= 500)]
             /\ synContent' = IF r.ok
                               THEN [synContent EXCEPT ![synModel] = resp.content]
                               ELSE synContent
             /\ IF r.ok
                THEN IF Accepted(synPath, r.content)
                     THEN /\ synResult' = enforcePromptLimit(r.content, SUNO_PROMPT_MAX_CHARS)
                          /\ synPc' = "returned"
                          /\ UNCHANGED <<synModel, synI, synDelay>>
                     ELSE SynNextModel
                ELSE IF GivesUp(r.status, synI, AttemptsArg)
                     THEN SynNextModel
                     ELSE /\ synPc' = "sleep"
                          /\ UNCHANGED <<synModel, synI, synDelay, synResult>>
    /\ UNCHANGED <<synPath, synTrace, synDigest>>
    /\ UNCHANGED <<gsVars, othersOfGs>>

\* await sleep(delay) ends; delay *= 2; i++
SynWake ==
    /\ synPc = "sleep"
    /\ synTrace' = [synTrace EXCEPT ![synModel] = Append(@, synDelay)]
    /\ synDelay' = synDelay * 2
    /\ synI' = synI + 1
    /\ synPc' = "call"
    /\ UNCHANGED <<synPath, synModel, synInflight, synLast, synOnly5xxNet,
                   synContent, synDigest, synResult>>
    /\ UNCHANGED <<gsVars, othersOfGs>>

\* the state in which a synthesis call starts
SynStart(path, digest) ==
    /\ synPath' = path
    /\ synPc' = "call"
    /\ synModel' = 1
    /\ synI' = 0
    /\ synDelay' = INITIAL_DELAY
    /\ synDigest' = digest
    /\ UNCHANGED <<synInflight, synTrace, synLast, synOnly5xxNet, synContent,
                   synResult>>

(***************************************************************************)
(* POST /api/generate-song                                                 *)
(***************************************************************************)
GsRespond(status) ==
    /\ gsPc' = "done"
    /\ gsStatus' = status

\* the handler up to its first await
GsRequest ==
    /\ gsPc = "idle"
    /\ \E hasUrl \in BOOLEAN :
         IF ~envSunoKey \/ ~envOpenRouterKey
         THEN GsRespond(500)
         ELSE /\ gsPc' = IF hasUrl THEN "article" ELSE "news"
              /\ gsStatus' = gsStatus
    /\ UNCHANGED <<gsPrompt, gsCreates, synVars, othersOfGs>>

\* fetchArticleContent(url) settles; summarizeArticleWithOpenRouter starts
GsArticleFetched ==
    /\ gsPc = "article"
    /\ \/ /\ GsRespond(502)          \* fetchArticleContent threw
          /\ UNCHANGED synVars
       \/ \E articleText \in ArticleTexts :
            IF articleText = <<>>
            THEN GsRespond(502) /\ UNCHANGED synVars
            ELSE /\ gsPc' = "synth"
                 /\ gsStatus' = gsStatus
                 /\ SynStart("summarize", <<>>)
    /\ UNCHANGED <<gsPrompt, gsCreates, othersOfGs>>

\* fetchTopNews(5) settles; generateLyricsWithOpenRouter starts
GsNewsFetched ==
    /\ gsPc = "news"
    /\ \E stories \in StoryLists :
         IF Len(stories) = 0
         THEN GsRespond(503) /\ UNCHANGED synVars
         ELSE /\ gsPc' = "synth"
              /\ gsStatus' = gsStatus
              /\ SynStart("lyrics", formatStoriesForModel(stories))
    /\ UNCHANGED <<gsPrompt, gsCreates, othersOfGs>>

\* the synthesis call has ended: 502 if it threw, else the create call is sent
GsSynthEnded ==
    /\ gsPc = "synth"
    /\ synPc \in {"returned", "threw"}
    /\ IF synPc = "threw"
       THEN GsRespond(502) /\ UNCHANGED <<gsPrompt, gsCreates>>
       ELSE /\ gsPrompt' = enforcePromptLimit(synResult, SUNO_PROMPT_MAX_CHARS)
            /\ gsCreates' = gsCreates + 1
            /\ gsPc' = "create"
            /\ gsStatus' = gsStatus
    /\ UNCHANGED <<synVars, othersOfGs>>

\* statuses the synthesis service can answer a create call with
CreateStatuses == {200, 401, 429, 500}

\* the create call settles: not ok passes the upstream status on, ok is
\* answered 202; a fetch that throws is outside any try block
GsCreateAnswered ==
    /\ gsPc = "create"
    /\ \/ \E st \in CreateStatuses :
            GsRespond(IF HttpOk(st) THEN 202 ELSE st)
       \/ gsPc' = "unhandled" /\ gsStatus' = gsStatus
    /\ UNCHANGED <<gsPrompt, gsCreates, synVars, othersOfGs>>



(***************************************************************************)
(* new URL(value), url.toString(), String.prototype.toLowerCase            *)
(***************************************************************************)
UpperChars ==
    <<"A", "B", "C", "D", "E", "F", "G", "H", "I", "J", "K", "L", "M", "N",
      "O", "P", "Q", "R", "S", "T", "U", "V", "W", "X", "Y", "Z">>
LowerChars ==
    <<"a", "b", "c", "d", "e", "f", "g", "h", "i", "j", "k", "l", "m", "n",
      "o", "p", "q", "r", "s", "t", "u", "v", "w", "x", "y", "z">>
Digits == {"0", "1", "2", "3", "4", "5", "6", "7", "8", "9"}
Range(f) == {f[i] : i \in DOMAIN f}

LowerChar(c) ==
    IF c \in Range(UpperChars)
    THEN LowerChars[CHOOSE i \in DOMAIN UpperChars : UpperChars[i] = c]
    ELSE c

toLowerCase(s) == [i \in 1..Len(s) |-> LowerChar(s[i])]

\* the first index i >= from with s[i] \in set, or Len(s) + 1
RECURSIVE FirstIn(_, _, _)
FirstIn(s, set, from) ==
    IF from > Len(s) THEN Len(s) + 1
    ELSE IF s[from] \in set THEN from
    ELSE FirstIn(s, set, from + 1)

\* the last index i with s[i] \in set, or 0
RECURSIVE LastIn(_, _, _)
LastIn(s, set, upto) ==
    IF upto = 0 THEN 0
    ELSE IF s[upto] \in set THEN upto
    ELSE LastIn(s, set, upto - 1)

\* the first index i >= from with s[i] \notin set, or Len(s) + 1
RECURSIVE FirstNotIn(_, _, _)
FirstNotIn(s, set, from) ==
    IF from > Len(s) THEN Len(s) + 1
    ELSE IF s[from] \notin set THEN from
    ELSE FirstNotIn(s, set, from + 1)

SpecialSchemes == { <<"h", "t", "t", "p">>, <<"h", "t", "t", "p", "s">>, <<"f", "t", "p">> }
DefaultPort(scheme) ==
    IF scheme = <<"h", "t", "t", "p", "s">> THEN <<"4", "4", "3">>
    ELSE IF scheme = <<"h", "t", "t", "p">> THEN <<"8", "0">>
    ELSE IF scheme = <<"f", "t", "p">> THEN <<"2", "1">>
    ELSE <<>>
\* characters a host may not contain
ForbiddenHostChars == {" ", "\n", "<", ">", "[", "]", "^", "|", "%", "@", ":"}

URLFailure ==
    [ok |-> FALSE, protocol |-> <<>>, username |-> <<>>, hostname |-> <<>>,
     port |-> <<>>, path |-> <<>>]

\* new URL(value) without a base: the record of the parsed URL, or ok = FALSE
\* where the constructor throws
URLParse(value) ==
    LET s == Trim(value)
        colon == FirstIn(s, {":"}, 1)
        scheme == toLowerCase(SubSeq(s, 1, colon - 1))
        schemeOk == /\ colon <= Len(s)
                    /\ scheme # <<>>
                    /\ scheme[1] \in Range(LowerChars)
                    /\ \A i \in 1..Len(scheme) :
                          scheme[i] \in Range(LowerChars) \cup Digits \cup {"+", "-", "."}
        rest == SubSeq(s, colon + 1, Len(s))
        start == FirstNotIn(rest, {"/", "\\"}, 1)
        stop == FirstIn(rest, {"/", "\\", "?", "#"}, start)
        authority == SubSeq(rest, start, stop - 1)
        at == LastIn(authority, {"@"}, Len(authority))
        hostport == SubSeq(authority, at + 1, Len(authority))
        pcolon == LastIn(hostport, {":"}, Len(hostport))
        hasPort == pcolon > 0
        hostname == toLowerCase(IF hasPort THEN SubSeq(hostport, 1, pcolon - 1) ELSE hostport)
        portRaw == IF hasPort THEN SubSeq(hostport, pcolon + 1, Len(hostport)) ELSE <<>>
        hostOk == /\ hostname # <<>>
                  /\ \A i \in 1..Len(hostname) : hostname[i] \notin ForbiddenHostChars
                  /\ \A i \in 1..Len(portRaw) : portRaw[i] \in Digits
    IN  IF ~schemeOk THEN URLFailure
        ELSE IF scheme \notin SpecialSchemes
        THEN [ok |-> TRUE, protocol |-> scheme \o <<":">>, username |-> <<>>,
              hostname |-> <<>>, port |-> <<>>, path |-> rest]
        ELSE IF ~hostOk THEN URLFailure
        ELSE [ok |-> TRUE,
              protocol |-> scheme \o <<":">>,
              username |-> SubSeq(authority, 1, at - 1),
              hostname |-> hostname,
              port |-> IF portRaw = DefaultPort(scheme) THEN <<>> ELSE portRaw,
              path |-> IF stop > Len(rest) THEN <<"/">> ELSE SubSeq(rest, stop, Len(rest))]

\* url.toString()
URLToString(u) ==
    IF SubSeq(u.protocol, 1, Len(u.protocol) - 1) \notin SpecialSchemes
    THEN u.protocol \o u.path
    ELSE u.protocol \o <<"/", "/">>
         \o (IF u.username # <<>> THEN u.username \o <<"@">> ELSE <<>>)
         \o u.hostname
         \o (IF u.port # <<>> THEN <<":">> \o u.port ELSE <<>>)
         \o u.path

(***************************************************************************)
(* The audio relay: isAllowedAudioHost and GET /api/proxy-audio            *)
(***************************************************************************)
SunoAi == <<".", "s", "u", "n", "o", ".", "a", "i">>
ALLOWED_AUDIO_HOSTS ==
    { <<"a", "u", "d", "i", "o", "p", "i", "p", "e">> \o SunoAi,
      <<"c", "d", "n">> \o SunoAi,
      <<"c", "d", "n", "1">> \o SunoAi,
      <<"c", "d", "n", "2">> \o SunoAi,
      <<"c", "d", "n", "3">> \o SunoAi }

\* String.prototype.endsWith
endsWith(s, t) ==
    Len(s) >= Len(t) /\ SubSeq(s, Len(s) - Len(t) + 1, Len(s)) = t

\* a wrong variant: the suffix test without the dot
isAllowedAudioHost_NoDot(hostname) ==
    IF hostname = <<>> THEN FALSE
    ELSE LET lower == toLowerCase(hostname)
         IN  \E allowed \in ALLOWED_AUDIO_HOSTS :
                lower = allowed \/ endsWith(lower, allowed)

isAllowedAudioHost(hostname) ==
    IF hostname = <<>> THEN FALSE
    ELSE LET lower == toLowerCase(hostname)
         IN  \E allowed \in ALLOWED_AUDIO_HOSTS :
                lower = allowed \/ endsWith(lower, <<".">> \o allowed)

\* the src query values of the requests
Src(scheme, host) == scheme \o <<":", "/", "/">> \o host \o <<"/", "a", ".", "m", "p", "3">>
Https == <<"h", "t", "t", "p", "s">>
Cdn1 == <<"c", "d", "n", "1">> \o SunoAi
EvilCom == <<"e", "v", "i", "l", ".", "c", "o", "m">>

RelaySrcs ==
    { <<>>,
      <<"n", "o", "t", " ", "a", " ", "u", "r", "l">>,
      <<"/", "a", ".", "m", "p", "3">>,
      Src(Https, Cdn1),
      Src(<<"H", "T", "T", "P", "S">>, <<"C", "D", "N", "1", ".", "S", "u", "n", "o", ".", "A", "I">>),
      Src(Https, <<"a", "u", "d", "i", "o", "p", "i", "p", "e">> \o SunoAi),
      Src(Https, <<"x", ".">> \o Cdn1),
      Src(Https, Cdn1 \o <<":", "4", "4", "3">>),
      Src(Https, <<"e", "v", "i", "l">> \o Cdn1),
      Src(Https, Cdn1 \o <<".">> \o EvilCom),
      Src(Https, Cdn1 \o <<"@">> \o EvilCom),
      Src(Https, <<"s", "u", "n", "o", ".", "a", "i">>),
      Src(Https, EvilCom),
      Src(Https, <<>>),
      Src(<<"h", "t", "t", "p">>, Cdn1),
      Src(<<"h", "t", "t", "p">>, EvilCom),
      Src(<<"f", "t", "p">>, EvilCom),
      <<"d", "a", "t", "a", ":", "a">> }

\* what the upstream can answer: a status with or without a body; a fetch
\* that throws has kind "network"
UpstreamAnswers ==
    {[kind |-> "http", status |-> st, body |-> b] :
        st \in {200, 204, 403, 404, 500}, b \in BOOLEAN}
    \cup {[kind |-> "network", status |-> 0, body |-> FALSE]}

RelayIdle ==
    /\ rlPc = "idle"
    /\ rlSrc = <<>>
    /\ rlStatus = 0
    /\ rlFetches = 0
    /\ rlStreamed = FALSE
    /\ rlServed = 0

\* the handler up to await fetch(url)
RelayRequest ==
    /\ rlPc = "idle"
    /\ rlServed < MaxRelayRequests
    /\ \E src \in RelaySrcs :
         LET url == URLParse(src)
         IN  /\ rlSrc' = src
             /\ rlStreamed' = FALSE
             /\ IF src = <<>> \/ ~url.ok \/ url.protocol # Https \o <<":">>
                THEN rlPc' = "done" /\ rlStatus' = 400 /\ rlFetches' = 0
                ELSE IF ~isAllowedAudioHost(url.hostname)
                THEN rlPc' = "done" /\ rlStatus' = 403 /\ rlFetches' = 0
                ELSE rlPc' = "fetch" /\ rlStatus' = 0 /\ rlFetches' = 1
    /\ UNCHANGED <<rlServed, othersOfRl>>

\* the upstream fetch settles
RelayUpstream ==
    /\ rlPc = "fetch"
    /\ \E up \in UpstreamAnswers :
         IF up.kind = "network"
         THEN rlStatus' = 502 /\ rlStreamed' = FALSE
         ELSE IF ~HttpOk(up.status) \/ ~up.body
         THEN /\ rlStatus' = (IF up.status # 0 THEN up.status ELSE 502)
              /\ rlStreamed' = FALSE
         ELSE rlStatus' = 200 /\ rlStreamed' = TRUE
    /\ rlPc' = "done"
    /\ UNCHANGED <<rlSrc, rlFetches, rlServed, othersOfRl>>

\* the request is over; the server takes the next one
RelayNext ==
    /\ rlPc = "done"
    /\ rlPc' = "idle"
    /\ rlServed' = rlServed + 1
    /\ UNCHANGED <<rlSrc, rlStatus, rlFetches, rlStreamed, othersOfRl>>

(***************************************************************************)
(* normalizeSunoAudioUrl                                                   *)
(***************************************************************************)
\* a value that is not a string (undefined)
UNDEFINED == <<"#undefined">>

AudioPipe == <<"a", "u", "d", "i", "o", "p", "i", "p", "e">> \o SunoAi

\* SUNO_AUDIO_HOST_MIGRATIONS.get(host), or <<>>
MigratedHost(host) == IF host = AudioPipe THEN Cdn1 ELSE <<>>

\* a wrong variant: an input that does not parse is returned untrimmed
normalizeSunoAudioUrl_Untrimmed(value, migrateHost) ==
    IF value = UNDEFINED THEN <<>>
    ELSE IF Trim(value) = <<>> THEN <<>>
    ELSE IF Trim(value)[1] = "/" THEN Trim(value)
    ELSE IF ~URLParse(Trim(value)).ok THEN value
    ELSE URLToString(URLParse(Trim(value)))

normalizeSunoAudioUrl(value, migrateHost) ==
    IF value = UNDEFINED THEN <<>>
    ELSE LET trimmed == Trim(value)
             parsed == URLParse(trimmed)
             lowerHost == toLowerCase(parsed.hostname)
         IN  IF trimmed = <<>> THEN <<>>
             ELSE IF trimmed[1] = "/" THEN trimmed
             ELSE IF ~parsed.ok THEN trimmed
             ELSE IF migrateHost /\ MigratedHost(lowerHost) # <<>>
             THEN URLToString([parsed EXCEPT !.hostname = MigratedHost(lowerHost)])
             ELSE URLToString(parsed)

(***************************************************************************)
(* GET /api/song-status (part_002): parseIds and the handler               *)
(***************************************************************************)
\* String.prototype.split(sep) for a one-character separator
RECURSIVE Split(_, _)
Split(s, sep) ==
    LET at == FirstIn(s, {sep}, 1)
    IN  IF at > Len(s) THEN <<s>>
        ELSE <<SubSeq(s, 1, at - 1)>> \o Split(SubSeq(s, at + 1, Len(s)), sep)

\* parseIds for a string or an absent value (<<>>)
parseIds(value) ==
    IF value = <<>> THEN <<>>
    ELSE LET parts == Split(value, ",")
         IN  SelectSeq([i \in 1..Len(parts) |-> Trim(parts[i])], LAMBDA e : e # <<>>)

T1 == <<"t", "1">>
T2 == <<"t", "2">>
C1id == <<"c", "1">>
C2id == <<"c", "2">>
C3id == <<"c", "3">>

\* the id lists of at most n ids over pool, as comma-separated query values
IdLists(pool, n) == UNION {[1..k -> pool] : k \in 0..n}
TaskIdQueries ==
    {Join(l, <<",">>) : l \in IdLists({T1, T2}, MaxTaskIds)}
    \cup {<<" ">> \o T1 \o <<",", ",", " ">>}
ClipIdQueries == {<<>>, C1id, C1id \o <<",", " ">> \o C3id}

\* job records of the synthesis service
UpRow(taskId, clipId, state, audioUrl) ==
    [task_id |-> taskId, clip_id |-> clipId, state |-> state, audio_url |-> audioUrl]
AudioUrlOld == Src(Https, AudioPipe)
RowDone(taskId, clipId) == UpRow(taskId, clipId, "succeeded", AudioUrlOld)
RowOdd(taskId, clipId) == UpRow(taskId, clipId, "queued", UNDEFINED)
\* a null entry of the data array: reading a property of it throws
NullRow == UpRow(UNDEFINED, UNDEFINED, "#null", UNDEFINED)
HasNull(rows) == \E i \in 1..Len(rows) : rows[i] = NullRow

\* what the service can answer to the query of one task id
TaskAnswers(id) ==
    {[kind |-> "http", status |-> 200, data |-> d] :
        d \in {<<>>, <<RowDone(id, C1id)>>, <<RowDone(id, C1id), RowOdd(id, C2id)>>,
               <<NullRow>>}}
    \cup {[kind |-> "http", status |-> st, data |-> <<>>] :
            st \in {400, 401, 403, 404, 422, 500}}
    \cup {[kind |-> "network", status |-> 0, data |-> <<>>]}

\* what the service can answer to the list call
ListAnswers ==
    {[kind |-> "http", status |-> 200, data |-> d] :
        d \in {<<>>, <<RowDone(T1, C1id), RowOdd(T2, C2id), RowDone(T2, C3id)>>,
               <<RowDone(T2, C3id), RowOdd(T2, C2id), RowOdd(T1, C1id), RowDone(T1, C3id)>>,
               <<NullRow>>}}
    \cup {[kind |-> "http", status |-> st, data |-> <<>>] : st \in {401, 404, 500}}
    \cup {[kind |-> "network", status |-> 0, data |-> <<>>]}

\* a wrong variant: only 401 is an authentication failure
IsAuthStatus_Only401(status) == status = 401

\* [401, 403].includes(r.status)
IsAuthStatus(status) == status \in {401, 403}

\* a wrong variant: only 404 means pending
IsPendingStatus_Only404(status) == status = 404

\* [400, 404, 422].includes(r.status)
IsPendingStatus(status) == status \in {400, 404, 422}

\* the value one per-id query resolves to
NoResult == [id |-> <<>>, kind |-> "none", ok |-> FALSE, authError |-> FALSE,
             pending |-> FALSE, status |-> 0, data |-> <<>>]
QueryResult(id, ans) ==
    IF HttpOk(ans.status)
    THEN [id |-> id, kind |-> "http", ok |-> TRUE, authError |-> FALSE,
          pending |-> FALSE, status |-> ans.status, data |-> ans.data]
    ELSE [id |-> id, kind |-> "http", ok |-> FALSE,
          authError |-> IsAuthStatus(ans.status),
          pending |-> ~IsAuthStatus(ans.status) /\ IsPendingStatus(ans.status),
          status |-> ans.status, data |-> <<>>]

\* a wrong variant: a failed fetch resolves like a non-2xx answer
QueryThrows_Never(ans) == FALSE

\* whether the per-id query function throws on this answer: always on a
\* network failure, and in part_000 on every answer that is not 2xx
QueryThrows(ans) ==
    ans.kind = "network" \/ (variant = "part_000" /\ ~HttpOk(ans.status))

RECURSIVE Flatten(_)
Flatten(seqs) == IF seqs = <<>> THEN <<>> ELSE Head(seqs) \o Flatten(Tail(seqs))

\* one record of the 200 response
StatusRecord(r) ==
    [task_id |-> IF variant = "part_000" THEN UNDEFINED ELSE r.task_id,
     clip_id |-> r.clip_id, state |-> r.state,
     audio_url |-> normalizeSunoAudioUrl(r.audio_url, FALSE)]

PendingRow(id) == UpRow(id, UNDEFINED, "pending", UNDEFINED)

\* rows of the task-id path once every query has resolved
TaskRows(results) ==
    LET completedRows == Flatten([i \in 1..Len(results) |->
                             IF results[i].ok THEN results[i].data ELSE <<>>])
        pend == SelectSeq(results, LAMBDA r : ~r.ok /\ r.pending)
        pendingRows == [i \in 1..Len(pend) |-> PendingRow(pend[i].id)]
    IN  completedRows \o pendingRows

StatusIdle ==
    /\ stPc = "idle"
    /\ stTaskIds = <<>>
    /\ stClipIds = <<>>
    /\ stResults = <<>>
    /\ stStatus = 0
    /\ stError = ""
    /\ stData = <<>>
    /\ stTaskCalls = 0
    /\ stListCalls = 0
    /\ stListed = <<>>

StRespondError(status, error) ==
    /\ stPc' = "done"
    /\ stStatus' = status
    /\ stError' = error
    /\ stData' = <<>>

\* res.json of the mapped rows; a row that cannot be read throws into the
\* catch block
StRespondRows(rows) ==
    IF HasNull(rows)
    THEN StRespondError(502, "Suno task lookup failed")
    ELSE /\ stPc' = "done"
         /\ stStatus' = 200
         /\ stError' = ""
         /\ stData' = [i \in 1..Len(rows) |-> StatusRecord(rows[i])]

\* a wrong variant: clip IDs send the handler to the list call
UsesTaskPath_UnlessClips(taskIds, clipIds) == Len(taskIds) > 0 /\ Len(clipIds) = 0

\* if (taskIds.length) ... else ...: the per-task endpoint is used whenever a
\* task ID was supplied
UsesTaskPath(taskIds, clipIds) == Len(taskIds) > 0

\* the handler up to its first await: the per-id fetches of Promise.all are
\* all issued, or the list call is
StRequest ==
    /\ stPc = "idle"
    /\ \E qTask \in TaskIdQueries, qIds \in {<<>>, T2}, qClip \in ClipIdQueries :
         LET taskIds == parseIds(IF qTask # <<>> THEN qTask ELSE qIds)
             clipIds == parseIds(qClip)
         IN  IF ~envSunoKey
             THEN /\ StRespondError(500, "Suno API key is not configured.")
                  /\ UNCHANGED <<stTaskIds, stClipIds, stResults, stTaskCalls, stListCalls>>
             ELSE /\ stTaskIds' = taskIds
                  /\ stClipIds' = clipIds
                  /\ IF Len(taskIds) = 0 /\ Len(clipIds) = 0
                     THEN /\ StRespondError(400, "You must provide task_ids or clip_ids.")
                          /\ UNCHANGED <<stResults, stTaskCalls, stListCalls>>
                     ELSE IF UsesTaskPath(taskIds, clipIds)
                     THEN /\ stPc' = "polling"
                          /\ stResults' = [i \in 1..Len(taskIds) |-> NoResult]
                          /\ stTaskCalls' = Len(taskIds)
                          /\ UNCHANGED <<stStatus, stError, stData, stListCalls>>
                     ELSE /\ stPc' = "listing"
                          /\ stListCalls' = 1
                          /\ UNCHANGED <<stStatus, stError, stData, stResults, stTaskCalls>>
    /\ UNCHANGED <<stListed, othersOfSt>>

\* one per-id query settles, in any order. A query that throws rejects
\* Promise.all at once and the catch block answers 502; when the last query
\* resolves, the handler goes on to its response.
StQuerySettles ==
    /\ stPc = "polling"
    /\ \E i \in 1..Len(stTaskIds) :
         /\ stResults[i].kind = "none"
         /\ \E ans \in TaskAnswers(stTaskIds[i]) :
              IF QueryThrows(ans)
              THEN /\ stResults' = [stResults EXCEPT ![i] =
                          [NoResult EXCEPT !.id = stTaskIds[i], !.kind = "threw",
                                           !.status = ans.status]]
                   /\ StRespondError(502, "Suno task lookup failed")
              ELSE LET results == [stResults EXCEPT ![i] = QueryResult(stTaskIds[i], ans)]
                       auth == SelectSeq(results, LAMBDA r : r.authError)
                   IN  /\ stResults' = results
                       /\ IF \E j \in 1..Len(results) : results[j].kind = "none"
                          THEN UNCHANGED <<stPc, stStatus, stError, stData>>
                          ELSE IF auth # <<>>
                          THEN StRespondError(auth[1].status, "Suno authentication failed.")
                          ELSE StRespondRows(TaskRows(results))
    /\ UNCHANGED <<stTaskIds, stClipIds, stTaskCalls, stListCalls, stListed, othersOfSt>>

\* a wrong variant: the rows come back in the order of the requested clip IDs
RECURSIVE FilterByClipIds_RequestOrder(_, _)
FilterByClipIds_RequestOrder(rows, clipIds) ==
    IF clipIds = <<>> THEN <<>>
    ELSE SelectSeq(rows, LAMBDA x : x.clip_id = Head(clipIds))
         \o FilterByClipIds_RequestOrder(
                SelectSeq(rows, LAMBDA x : x.clip_id # Head(clipIds)), Tail(clipIds))

\* rows.filter(x => clipIds.includes(x.clip_id))
FilterByClipIds(rows, clipIds) ==
    SelectSeq(rows, LAMBDA x : x.clip_id \in Range(clipIds))

\* the list call settles
StListSettles ==
    /\ stPc = "listing"
    /\ \E ans \in ListAnswers :
         /\ stListed' = IF ans.kind = "http" /\ HttpOk(ans.status) THEN ans.data ELSE <<>>
         /\ IF ans.kind = "network"
            THEN StRespondError(502, "Suno task lookup failed")
            ELSE IF ~HttpOk(ans.status)
            THEN StRespondError(ans.status, "Suno task fetch failed")
            ELSE IF HasNull(ans.data)
            THEN StRespondError(502, "Suno task lookup failed")
            ELSE StRespondRows(
                    IF Len(stClipIds) > 0
                    THEN FilterByClipIds(ans.data, stClipIds)
                    ELSE ans.data)
    /\ UNCHANGED <<stTaskIds, stClipIds, stResults, stTaskCalls, stListCalls, othersOfSt>>

(***************************************************************************)
(* The Podcast Planner: normalizeHeadlineKey, scoreSimilarity and the      *)
(* validation of planPodcastWithOpenRouter (part_002)                      *)
(***************************************************************************)
\* replace(/[^a-z0-9]+/g, ' ') on a lower-cased text: every run of other
\* characters becomes one space
RECURSIVE CollapseNonAlnum(_, _)
CollapseNonAlnum(s, afterSpace) ==
    IF s = <<>> THEN <<>>
    ELSE IF Head(s) \in Range(LowerChars) \cup Digits
    THEN <<Head(s)>> \o CollapseNonAlnum(Tail(s), FALSE)
    ELSE IF afterSpace THEN CollapseNonAlnum(Tail(s), TRUE)
    ELSE <<" ">> \o CollapseNonAlnum(Tail(s), TRUE)

\* the texts of the model carry no diacritics, so normalize('NFKD') and the
\* removal of \p{Diacritic} leave them as they are
normalizeHeadlineKey(text) ==
    IF text = <<>> THEN <<>>
    ELSE Trim(CollapseNonAlnum(toLowerCase(text), FALSE))

\* new Set(a.split(/\s+/)): the split of the empty string is ['']
TokenSet(a) == Range(Split(a, " "))

\* overlap / maxLen as the fraction [num, den]
scoreSimilarity(a, b) ==
    LET ta == TokenSet(a)
        tb == TokenSet(b)
        overlap == Cardinality(ta \cap tb)
        maxLen == IF Cardinality(ta) > Cardinality(tb)
                  THEN Cardinality(ta) ELSE Cardinality(tb)
    IN  [num |-> overlap, den |-> IF maxLen = 0 THEN 1 ELSE maxLen]

\* x > y and x >= y on fractions with positive denominators
ScoreGt(x, y) == x.num * y.den > y.num * x.den
ScoreGe(x, y) == x.num * y.den >= y.num * x.den

THRESHOLD_PERCENT == 35
THRESHOLD == [num |-> THRESHOLD_PERCENT, den |-> 100]

\* the loop over stories: the first story with the highest score above 0,
\* as [idx, score]; idx 0 is best = null
RECURSIVE BestFrom(_, _, _, _)
BestFrom(key, stories, k, best) ==
    IF k > Len(stories) THEN best
    ELSE LET score == scoreSimilarity(key, normalizeHeadlineKey(stories[k].headline))
         IN  BestFrom(key, stories, k + 1,
                      IF ScoreGt(score, best.score)
                      THEN [idx |-> k, score |-> score] ELSE best)

BestMatch(headline, stories) ==
    BestFrom(normalizeHeadlineKey(headline), stories, 1,
             [idx |-> 0, score |-> [num |-> 0, den |-> 1]])

\* a wrong variant: every headline with some overlap is taken
MatchSelection_AnyOverlap(sel, stories) ==
    LET best == BestMatch(sel.headline, stories)
    IN  IF best.idx # 0
        THEN <<[sel EXCEPT !.headline = stories[best.idx].headline]>>
        ELSE <<>>

\* one entry of `filtered`: the selection with the candidate's headline, or
\* nothing
MatchSelection(sel, stories) ==
    LET best == BestMatch(sel.headline, stories)
    IN  IF ScoreGe(best.score, THRESHOLD)
        THEN <<[sel EXCEPT !.headline = stories[best.idx].headline]>>
        ELSE <<>>

\* a selection as the model returns it and as `normalized` keeps it
Selection(headline, hostScript) ==
    [headline |-> headline, source |-> <<>>, reason |-> <<>>, host_script |-> hostScript]

\* selections.map(...).filter(Boolean).slice(0, 3)
NormalizeSelections(selections) ==
    LET trimmed == [k \in 1..Len(selections) |->
                       [selections[k] EXCEPT !.headline = Trim(@),
                                             !.host_script = Trim(@)]]
        kept == SelectSeq(trimmed, LAMBDA e : e.headline # <<>>)
    IN  SubSeq(kept, 1, IF Len(kept) < 3 THEN Len(kept) ELSE 3)

\* The text a planner call returns is kept by what JSON.parse makes of it:
\* json says whether extractJsonFromString finds an object in it.
PlanText(json, overview, selections) ==
    [json |-> json, overview |-> overview, selections |-> selections]

\* the global `raw` before any assignment: reading it is a ReferenceError
UNDECLARED == [json |-> FALSE, overview |-> <<"#undeclared">>, selections |-> <<>>]

\* the outcome of planPodcastWithOpenRouter after its loop, for the text in
\* `raw`: the plan, or the error thrown
NoPlan == [ok |-> FALSE, overviewScript |-> <<>>, selections |-> <<>>]
ValidatePlan(raw, stories) ==
    IF raw = UNDECLARED \/ ~raw.json THEN NoPlan
    ELSE LET overviewScript == Trim(raw.overview)
             normalized == NormalizeSelections(raw.selections)
             filtered == Flatten([k \in 1..Len(normalized) |->
                                     MatchSelection(normalized[k], stories)])
         IN  IF overviewScript = <<>> \/ Len(filtered) # 3 THEN NoPlan
             ELSE [ok |-> TRUE, overviewScript |-> overviewScript,
                   selections |-> filtered]

(***************************************************************************)
(* POST /api/generate-podcast (part_002)                                   *)
(***************************************************************************)
PodcastStory(headline, link) ==
    [headline |-> headline, source |-> <<"S">>, summary |-> <<>>, link |-> link]
StoryAB == PodcastStory(<<"a", " ", "b">>, <<"l", "1">>)
StoryCD == PodcastStory(<<"c", " ", "d">>, <<"l", "2">>)
StoryE == PodcastStory(<<"e">>, <<>>)

\* req.body.stories
PodcastStoryLists == { <<>>, <<StoryAB, StoryCD, StoryE>>, <<StoryAB, StoryCD>> }

\* req.query.phase, <<>> when absent
PhaseQueries == { <<>>, <<"P", "l", "a", "n">>, <<"f", "u", "l", "l">> }
PhaseOf(q) == toLowerCase(IF q # <<>> THEN q ELSE <<"f", "u", "l", "l">>)

\* texts the planner model can return
PlanMatching ==
    PlanText(TRUE, <<"o", "v">>,
             << Selection(<<"A", " ", "b", "!">>, <<"h", "1">>),
                Selection(<<"c", " ", "d">>, <<"h", "2">>),
                Selection(<<"e", " ", "x">>, <<"h", "3">>) >>)
PlanRepeating ==
    PlanText(TRUE, <<"o">>,
             << Selection(<<"a", " ", "b">>, <<"h", "1">>),
                Selection(<<"c", " ", "d">>, <<>>),
                Selection(<<"b">>, <<"h", "4">>) >>)
PlanNoOverlap ==
    PlanText(TRUE, <<"o">>,
             << Selection(<<"a", " ", "b">>, <<"h", "1">>),
                Selection(<<"c", " ", "d">>, <<"h", "2">>),
                Selection(<<"z">>, <<"h", "3">>) >>)
PlanWeakOverlap ==
    PlanText(TRUE, <<"o">>,
             << Selection(<<"a", " ", "b">>, <<"h", "1">>),
                Selection(<<"a", " ", "x", " ", "y">>, <<"h", "2">>),
                Selection(<<"c", " ", "d">>, <<"h", "3">>),
                Selection(<<"e">>, <<"h", "4">>) >>)
PlanNoOverview == [PlanMatching EXCEPT !.overview = <<" ">>]
PlanNotJson == PlanText(FALSE, <<"x">>, <<>>)
PlanEmpty == PlanText(FALSE, <<>>, <<>>)
PlanTexts ==
    {PlanMatching, PlanRepeating, PlanNoOverlap, PlanWeakOverlap, PlanNoOverview,
     PlanNotJson}

PlannerResponses ==
    {[kind |-> "http", status |-> 200, content |-> t] : t \in PlanTexts \cup {PlanEmpty}}
    \cup {[kind |-> "http", status |-> st, content |-> PlanEmpty] : st \in {500}}
    \cup {[kind |-> "network", status |-> 0, content |-> PlanEmpty]}

\* callOpenRouterOnce for a planner text: content?.trim(), and
\* if (!content) throw
PlannerCallOk(resp) ==
    /\ resp.kind = "http"
    /\ HttpOk(resp.status)
    /\ (resp.content.json \/ Trim(resp.content.overview) # <<>>)

DeepResponses ==
    {[kind |-> "http", status |-> 200, content |-> t] : t \in {<<"d", "d">>, <<>>}}
    \cup {[kind |-> "http", status |-> 500, content |-> <<>>]}
    \cup {[kind |-> "network", status |-> 0, content |-> <<>>]}

\* what fetchArticleContent(story.link) can do
ArticleOutcomes ==
    {[threw |-> TRUE, text |-> <<>>]}
    \cup {[threw |-> FALSE, text |-> t] : t \in ArticleTexts}

\* what the create call of the synthesis service can answer
CreateAnswers ==
    {[kind |-> "http", status |-> 200, taskIds |-> ids] : ids \in {<<T1>>, <<>>}}
    \cup {[kind |-> "http", status |-> st, taskIds |-> <<>>] : st \in {401, 500}}
    \cup {[kind |-> "network", status |-> 0, taskIds |-> <<>>]}

NoCalls == [planner |-> 0, article |-> 0, deepdive |-> 0, summarize |-> 0, create |-> 0]

PdIdleValue ==
    [pc |-> "idle", plan |-> FALSE, stories |-> <<>>, model |-> 0, own |-> {},
     parsed |-> <<>>, selected |-> <<>>, idx |-> 0, deep |-> <<>>,
     selections |-> <<>>, overview |-> <<>>, status |-> 0, error |-> "",
     calls |-> NoCalls, articleFailed |-> {}, deepCalled |-> {},
     deepFailed |-> {}, createFailed |-> {}, planned |-> <<>>,
     lyricsFailed |-> {}, listed |-> <<>>]

PodcastIdle ==
    /\ gRaw = UNDECLARED
    /\ pd = PdIdleValue
    /\ pdServed = 0

PdFail(p, status, error) ==
    [p EXCEPT !.pc = "done", !.status = status, !.error = error]

Bump(p, what) == [p EXCEPT !.calls[what] = @ + 1]

\* storyLookup.get(key): of the stories with this key the Map keeps the last
LookupStory(stories, key) ==
    LET hits == {k \in 1..Len(stories) : normalizeHeadlineKey(stories[k].headline) = key}
    IN  IF hits = {} THEN 0 ELSE CHOOSE k \in hits : \A j \in hits : j <= k

\* one entry of selectedStories
SelectedStory(sel, stories) ==
    LET k == LookupStory(stories, normalizeHeadlineKey(sel.headline))
        match == IF k = 0 THEN PodcastStory(<<>>, <<>>) ELSE stories[k]
    IN  [headline |-> IF match.headline # <<>> THEN match.headline ELSE sel.headline,
         source |-> IF sel.source # <<>> THEN sel.source
                    ELSE IF k # 0 THEN match.source ELSE <<>>,
         summary |-> match.summary,
         link |-> match.link,
         reason |-> sel.reason,
         host_script |-> sel.host_script]

\* one entry of the response's selections
ResponseSelection(story, deepDiveScript, articleContent, songPrompt, taskIds) ==
    [headline |-> story.headline, overviewScript |-> story.host_script,
     deepDiveScript |-> deepDiveScript, articleContent |-> articleContent,
     songPrompt |-> songPrompt, songTaskIds |-> taskIds, songClipIds |-> <<>>]

\* deepDiveScripts.find((entry) => entry.headline === story.headline)
FindDeep(deep, headline) ==
    deep[CHOOSE k \in 1..Len(deep) :
            /\ deep[k].headline = headline
            /\ \A j \in 1..(k - 1) : deep[j].headline # headline]

\* the song prompt: the instruction lines, then deep.script || host_script
SongPrompt(deepEntry, story) ==
    <<"#instructions">> \o
        (IF deepEntry.script # <<>> THEN deepEntry.script ELSE story.host_script)

\* a wrong variant: the plan phase is not told apart from the full phase
PdAfterPlannerLoop_AlwaysFull(p, raw) ==
    LET plan == ValidatePlan(raw, p.stories)
        q == [p EXCEPT !.parsed = <<raw>>, !.planned = plan.selections]
        selected == [k \in 1..Len(plan.selections) |->
                        SelectedStory(plan.selections[k], p.stories)]
    IN  IF raw = UNDECLARED
        THEN PdFail([p EXCEPT !.parsed = <<>>], 502, "Unable to generate podcast.")
        ELSE IF ~plan.ok
        THEN PdFail(q, 502, "Unable to generate podcast.")
        ELSE Bump([q EXCEPT !.pc = "article", !.selected = selected,
                            !.overview = plan.overviewScript, !.idx = 1],
                  "article")

\* the handler after planPodcastWithOpenRouter's loop, with `raw` as it is:
\* reading an undeclared `raw` throws, an invalid plan throws, the plan phase
\* answers at once and the full phase fetches the first article
PdAfterPlannerLoop(p, raw) ==
    LET plan == ValidatePlan(raw, p.stories)
        q == [p EXCEPT !.parsed = <<raw>>, !.planned = plan.selections]
        selected == [k \in 1..Len(plan.selections) |->
                        SelectedStory(plan.selections[k], p.stories)]
    IN  IF raw = UNDECLARED
        THEN PdFail([p EXCEPT !.parsed = <<>>], 502, "Unable to generate podcast.")
        ELSE IF ~plan.ok
        THEN PdFail(q, 502, "Unable to generate podcast.")
        ELSE IF p.plan
        THEN [q EXCEPT !.pc = "done", !.status = 200,
                       !.selected = selected,
                       !.overview = plan.overviewScript,
                       !.selections = [k \in 1..Len(selected) |->
                           ResponseSelection(selected[k], selected[k].host_script,
                                             <<>>, <<>>, <<>>)]]
        ELSE Bump([q EXCEPT !.pc = "article", !.selected = selected,
                            !.overview = plan.overviewScript, !.idx = 1],
                  "article")

\* the handler up to the first planner call
PdRequest ==
    /\ pd.pc = "idle"
    /\ pdServed < MaxPodcastRequests
    /\ \E stories \in PodcastStoryLists, phaseQ \in PhaseQueries :
         LET p == [PdIdleValue EXCEPT !.stories = stories,
                                      !.plan = (PhaseOf(phaseQ) = <<"p", "l", "a", "n">>)]
         IN  pd' = IF ~envOpenRouterKey
                   THEN PdFail(p, 500, "OpenRouter API key is not configured.")
                   ELSE IF Len(stories) = 0
                   THEN PdFail(p, 400, "At least one headline is required to build a podcast.")
                   ELSE Bump([p EXCEPT !.pc = "planner", !.model = 1], "planner")
    /\ UNCHANGED <<gRaw, pdServed, othersOfPd>>

\* a planner call settles: on success the text is assigned to `raw` and the
\* loop breaks; on failure the loop continues with the next model
PdPlannerAnswers ==
    /\ pd.pc = "planner"
    /\ \E resp \in PlannerResponses :
         IF PlannerCallOk(resp)
         THEN /\ gRaw' = resp.content
              /\ pd' = PdAfterPlannerLoop([pd EXCEPT !.own = @ \cup {resp.content}],
                                          resp.content)
         ELSE /\ gRaw' = gRaw
              /\ pd' = IF pd.model < Len(LYRIC_MODELS)
                       THEN Bump([pd EXCEPT !.model = @ + 1], "planner")
                       ELSE PdAfterPlannerLoop(pd, gRaw)
    /\ UNCHANGED <<pdServed, othersOfPd>>

\* the first loop steps to the next story, or the second loop starts with
\* createSunoTaskFromScript for the first story
PdNextArticle(p) ==
    IF p.idx < Len(p.selected)
    THEN Bump([p EXCEPT !.pc = "article", !.idx = @ + 1], "article")
    ELSE [p EXCEPT !.pc = "summarize", !.idx = 1]

DeepEntry(story, script, articleText) ==
    [headline |-> story.headline, script |-> script, articleContent |-> articleText]

\* a wrong variant: a failed article fetch fails the episode
PdArticleAnswers_FailsEpisode ==
    /\ pd.pc = "article"
    /\ \E out \in ArticleOutcomes :
         LET story == pd.selected[pd.idx]
             p == IF out.threw THEN [pd EXCEPT !.articleFailed = @ \cup {pd.idx}] ELSE pd
         IN  pd' = IF out.threw
                   THEN PdFail(p, 502, "Unable to generate podcast.")
                   ELSE IF out.text # <<>>
                   THEN Bump([p EXCEPT !.pc = "deep", !.deepCalled = @ \cup {pd.idx},
                                       !.deep = Append(@, DeepEntry(story, <<>>, out.text))],
                             "deepdive")
                   ELSE PdNextArticle(
                            [p EXCEPT !.deep = Append(@, DeepEntry(story, story.host_script, <<>>))])
    /\ UNCHANGED <<gRaw, pdServed, othersOfPd>>

\* fetchArticleContent settles for story idx: a throw leaves articleText ''
PdArticleAnswers ==
    /\ pd.pc = "article"
    /\ \E out \in ArticleOutcomes :
         LET story == pd.selected[pd.idx]
             p == IF out.threw THEN [pd EXCEPT !.articleFailed = @ \cup {pd.idx}] ELSE pd
         IN  pd' = IF out.text # <<>>
                   THEN Bump([p EXCEPT !.pc = "deep", !.deepCalled = @ \cup {pd.idx},
                                       !.deep = Append(@, DeepEntry(story, <<>>, out.text))],
                             "deepdive")
                   ELSE PdNextArticle(
                            [p EXCEPT !.deep = Append(@, DeepEntry(story, story.host_script, <<>>))])
    /\ UNCHANGED <<gRaw, pdServed, othersOfPd>>

\* the model call of writeDeepDiveScript settles for story idx
PdDeepAnswers ==
    /\ pd.pc = "deep"
    /\ \E resp \in DeepResponses :
         LET r == callOpenRouterOnce(resp)
         IN  pd' = IF r.ok
                   THEN PdNextArticle([pd EXCEPT !.deep[pd.idx].script =
                            enforcePromptLimit(r.content, SUNO_PROMPT_MAX_CHARS)])
                   ELSE PdFail([pd EXCEPT !.deepFailed = @ \cup {pd.idx}],
                               502, "Unable to generate podcast.")
    /\ UNCHANGED <<gRaw, pdServed, othersOfPd>>

\* the second loop steps to the next story, or the response is sent
PdNextCreate(p) ==
    IF p.idx < Len(p.selected)
    THEN [p EXCEPT !.pc = "summarize", !.idx = @ + 1]
    ELSE [p EXCEPT !.pc = "done", !.status = 200]

\* summarizeArticleWithOpenRouter inside createSunoTaskFromScript settles:
\* it throws without a model call when there is no article text, and else
\* returns lyrics or throws after its models are exhausted. A throw makes
\* createSunoTaskFromScript return null; with lyrics the synthesis key is
\* checked and the create call is sent.
PdSummarizeEnds ==
    /\ pd.pc = "summarize"
    /\ LET story == pd.selected[pd.idx]
           deepEntry == FindDeep(pd.deep, story.headline)
       IN  \E gotLyrics \in BOOLEAN :
             pd' = IF deepEntry.articleContent = <<>>
                   THEN PdNextCreate([pd EXCEPT !.lyricsFailed = @ \cup {pd.idx}])
                   ELSE IF ~gotLyrics
                   THEN PdNextCreate(Bump([pd EXCEPT !.lyricsFailed = @ \cup {pd.idx}],
                                          "summarize"))
                   ELSE IF ~envSunoKey
                   THEN PdFail(Bump(pd, "summarize"), 502, "Unable to generate podcast.")
                   ELSE Bump(Bump([pd EXCEPT !.pc = "create"], "summarize"), "create")
    /\ UNCHANGED <<gRaw, pdServed, othersOfPd>>

\* the create call of createSunoTaskFromScript settles for story idx
PdCreateAnswers ==
    /\ pd.pc = "create"
    /\ \E ans \in CreateAnswers :
         LET story == pd.selected[pd.idx]
             deepEntry == FindDeep(pd.deep, story.headline)
         IN  pd' = IF ans.kind = "network" \/ ~HttpOk(ans.status)
                   THEN PdFail([pd EXCEPT !.createFailed = @ \cup {pd.idx}],
                               502, "Unable to generate podcast.")
                   ELSE PdNextCreate([pd EXCEPT !.listed = Append(@, pd.idx),
                                                !.selections = Append(@,
                            ResponseSelection(story,
                                IF deepEntry.script # <<>> THEN deepEntry.script
                                ELSE story.host_script,
                                deepEntry.articleContent,
                                SongPrompt(deepEntry, story), ans.taskIds))])
    /\ UNCHANGED <<gRaw, pdServed, othersOfPd>>

\* the request is over; the server takes the next one. The global `raw`
\* stays as the request left it.
PdNext ==
    /\ pd.pc = "done"
    /\ pd' = PdIdleValue
    /\ pdServed' = pdServed + 1
    /\ UNCHANGED <<gRaw, othersOfPd>>

(***************************************************************************)
(* pollForAudio (part_000): the client loop over /api/song-status          *)
(***************************************************************************)
\* a wrong variant: the loop never looks at the clock
WithinBudget_Always(now, start, timeoutMs) == TRUE

\* the loop condition: Date.now() - start < timeoutMs
WithinBudget(now, start, timeoutMs) == now - start < timeoutMs

\* data.find(d => d.state === 'succeeded' && d.audio_url): the index of the
\* first such record, or 0
FindReady(data) ==
    LET ready == {k \in 1..Len(data) :
                     data[k].state = "succeeded" /\ data[k].audio_url # <<>>}
    IN  IF ready = {} THEN 0 ELSE CHOOSE k \in ready : \A j \in ready : k <= j

\* the record /api/song-status sends for an upstream record: its audio_url
\* has passed through the server's normalizeSunoAudioUrl
PollRecord(r) ==
    [clip_id |-> r.clip_id, state |-> r.state,
     audio_url |-> normalizeSunoAudioUrl(r.audio_url, FALSE)]

\* the upstream records behind one status response; an error response has
\* no data and counts as []
PollUpstreamUrls == {UNDEFINED, <<" ">>, <<"/", "a">>, AudioUrlOld, <<" ">> \o AudioUrlOld}
PollUpstream(clipId, state, url) == [clip_id |-> clipId, state |-> state, audio_url |-> url]
PollUpstreamDatas ==
    { <<>>,
      <<PollUpstream(C1id, "pending", UNDEFINED)>>,
      <<PollUpstream(C1id, "succeeded", <<" ">>)>>,
      <<PollUpstream(C1id, "failed", AudioUrlOld)>>,
      <<PollUpstream(C1id, "pending", UNDEFINED),
        PollUpstream(C2id, "succeeded", <<" ">> \o AudioUrlOld)>>,
      <<PollUpstream(C1id, "succeeded", <<"/", "a">>)>> }

NoRecord == [clip_id |-> <<>>, state |-> "none", audio_url |-> <<>>]

\* the clock never passes this value while the loop keeps to its budget
ClockCap == 2 + MaxTimeout + 2 * (MaxInterval + MaxRequestTime + 2)

\* setTimeout waits at least one millisecond
TimerDelay(intervalMs) == IF intervalMs < 1 THEN 1 ELSE intervalMs

PollIdle ==
    pl = [pc |-> "idle", start |-> 0, now |-> 0, timeoutMs |-> 0, intervalMs |-> 0,
          requests |-> 0, result |-> NoRecord]

PollInit ==
    \E t \in 0..MaxTimeout, i \in 0..MaxInterval, s \in {0, 2} :
        pl = [pc |-> "check", start |-> s, now |-> s, timeoutMs |-> t,
              intervalMs |-> i, requests |-> 0, result |-> NoRecord]

\* the head of the while loop: the next status request is sent, or the loop
\* ends and 'Timed out waiting for Suno audio' is thrown
PollCheck ==
    /\ pl.pc = "check"
    /\ pl' = IF WithinBudget(pl.now, pl.start, pl.timeoutMs)
             THEN [pl EXCEPT !.pc = "request", !.requests = @ + 1]
             ELSE [pl EXCEPT !.pc = "timedout"]
    /\ UNCHANGED othersOfPl

\* the status request completes after some time
PollAnswered ==
    /\ pl.pc = "request"
    /\ pl.now < ClockCap
    /\ \E took \in 0..MaxRequestTime, upstream \in PollUpstreamDatas :
         \E data \in {[i \in 1..Len(upstream) |-> PollRecord(upstream[i])]} :
           \E k \in {FindReady(data)} :
             pl' = IF k # 0
                   THEN [pl EXCEPT !.now = @ + took, !.pc = "returned",
                                   !.result = [data[k] EXCEPT !.audio_url =
                                       normalizeSunoAudioUrl(data[k].audio_url, FALSE)]]
                   ELSE [pl EXCEPT !.now = @ + took, !.pc = "sleep"]
    /\ UNCHANGED othersOfPl

\* the timer of intervalMs fires, on time or late
PollWake ==
    /\ pl.pc = "sleep"
    /\ pl.now < ClockCap
    /\ \E late \in 0..1 :
         pl' = [pl EXCEPT !.pc = "check", !.now = @ + TimerDelay(pl.intervalMs) + late]
    /\ UNCHANGED othersOfPl

(***************************************************************************)
(* The IDs of a create response: POST /api/generate-song (part_002         *)
(* 679-700) and createSunoTaskFromScript (589-603)                         *)
(***************************************************************************)
\* a JavaScript value that is neither undefined nor the empty string
Truthy(v) == v # UNDEFINED /\ v # <<>>

\* one element of the list: an object with its four fields, UNDEFINED for a
\* field it lacks, or a value that is not an object (null, a string)
CreateItem(taskId, id, clipId, songId) ==
    [obj |-> TRUE, task_id |-> taskId, id |-> id, clip_id |-> clipId, song_id |-> songId]
NotAnObject ==
    [obj |-> FALSE, task_id |-> UNDEFINED, id |-> UNDEFINED, clip_id |-> UNDEFINED,
     song_id |-> UNDEFINED]
CreateItems ==
    {CreateItem(t, i, c, s) : t \in {UNDEFINED, T1}, i \in {UNDEFINED, T2},
                              c \in {UNDEFINED, <<>>, C1id}, s \in {UNDEFINED, C1id}}
    \cup {NotAnObject}

\* the parsed body of a 2xx create response: a top-level array, an object
\* with an array under data, a single object, JSON null, or a text that is
\* not JSON
CreateData(shape, top, items) == [shape |-> shape, top |-> top, items |-> items]
CreateDatas ==
    {CreateData("array", NotAnObject, items) :
        items \in UNION {[1..k -> CreateItems] : k \in 0..MaxItems}}
    \cup {CreateData("wrapped", top, items) :
            top \in {CreateItem(T2, UNDEFINED, C2id, UNDEFINED)},
            items \in UNION {[1..k -> CreateItems] : k \in 0..MaxItems}}
    \cup {CreateData("object", top, <<>>) : top \in CreateItems \ {NotAnObject}}
    \cup {CreateData("null", NotAnObject, <<>>), CreateData("text", NotAnObject, <<>>)}

\* Array.isArray(data?.data) ? data.data : toArray(data)
CreateList(data) ==
    CASE data.shape = "array" -> data.items
      [] data.shape = "wrapped" -> data.items
      [] data.shape = "object" -> <<data.top>>
      [] data.shape = "text" -> <<NotAnObject>>
      [] OTHER -> <<>>

\* what one pass of the for loop pushes to taskIds and to clipIds
ItemTaskIds(item) ==
    IF ~item.obj THEN <<>>
    ELSE (IF Truthy(item.task_id) THEN <<item.task_id>> ELSE <<>>)
         \o (IF Truthy(item.id) /\ ~Truthy(item.clip_id) /\ ~Truthy(item.song_id)
             THEN <<item.id>> ELSE <<>>)
ItemClipIds(item) ==
    IF ~item.obj THEN <<>>
    ELSE (IF Truthy(item.clip_id) THEN <<item.clip_id>> ELSE <<>>)
         \o (IF Truthy(item.song_id) THEN <<item.song_id>> ELSE <<>>)

RECURSIVE PushedTaskIds(_)
PushedTaskIds(list) ==
    IF list = <<>> THEN <<>>
    ELSE PushedTaskIds(SubSeq(list, 1, Len(list) - 1)) \o ItemTaskIds(list[Len(list)])
RECURSIVE PushedClipIds(_)
PushedClipIds(list) ==
    IF list = <<>> THEN <<>>
    ELSE PushedClipIds(SubSeq(list, 1, Len(list) - 1)) \o ItemClipIds(list[Len(list)])

\* a wrong variant: the list is sent as pushed
Dedupe_AsPushed(s) == s

\* [...new Set(s)]: the first occurrence of every value, in order
RECURSIVE Dedupe(_)
Dedupe(s) ==
    IF s = <<>> THEN <<>>
    ELSE IF s[Len(s)] \in Range(SubSeq(s, 1, Len(s) - 1))
         THEN Dedupe(SubSeq(s, 1, Len(s) - 1))
         ELSE Append(Dedupe(SubSeq(s, 1, Len(s) - 1)), s[Len(s)])

\* the response has no raw field
NoRaw == CreateData("absent", NotAnObject, <<>>)

SubmitIdle ==
    sb = [pc |-> "idle", path |-> "none", data |-> NoRaw, status |-> 0,
          task_ids |-> <<>>, clip_ids |-> <<>>, raw |-> NoRaw]

\* the create call of one of the two submission paths was answered 2xx
SubmitInit ==
    \E path \in {"song", "story"}, data \in CreateDatas :
        sb = [pc |-> "created", path |-> path, data |-> data, status |-> 0,
              task_ids |-> <<>>, clip_ids |-> <<>>, raw |-> NoRaw]

\* /api/generate-song, lines 679-700: the 202 response
SbSongResponds ==
    /\ sb.pc = "created"
    /\ sb.path = "song"
    /\ \E taskIds \in {PushedTaskIds(CreateList(sb.data))},
          clipIds \in {PushedClipIds(CreateList(sb.data))} :
         sb' = IF taskIds = <<>> /\ clipIds = <<>>
               THEN [sb EXCEPT !.pc = "done", !.status = 202, !.raw = sb.data]
               ELSE [sb EXCEPT !.pc = "done", !.status = 202,
                               !.task_ids = Dedupe(taskIds),
                               !.clip_ids = Dedupe(clipIds)]
    /\ UNCHANGED othersOfSb

\* createSunoTaskFromScript, lines 589-603, and the selection that
\* /api/generate-podcast pushes for the story, lines 808-822: songTaskIds and
\* songClipIds
SbStoryResponds ==
    /\ sb.pc = "created"
    /\ sb.path = "story"
    /\ sb' = [sb EXCEPT !.pc = "done", !.status = 200,
                        !.task_ids = Dedupe(PushedTaskIds(CreateList(sb.data))),
                        !.clip_ids = Dedupe(PushedClipIds(CreateList(sb.data)))]
    /\ UNCHANGED othersOfSb

(***************************************************************************)
(* newsService.js: decodeEntities, stripHtml, parseFeed                    *)
(***************************************************************************)
\* String.prototype.replace(/pat/g, rep) for a literal pattern
RECURSIVE ReplaceAll(_, _, _)
ReplaceAll(s, pat, rep) ==
    IF Len(s) < Len(pat) THEN s
    ELSE IF SubSeq(s, 1, Len(pat)) = pat
    THEN rep \o ReplaceAll(SubSeq(s, Len(pat) + 1, Len(s)), pat, rep)
    ELSE <<Head(s)>> \o ReplaceAll(Tail(s), pat, rep)

\* the five replacements, in the order of the source
decodeEntities(text) ==
    ReplaceAll(
      ReplaceAll(
        ReplaceAll(
          ReplaceAll(
            ReplaceAll(text, <<"&", "a", "m", "p", ";">>, <<"&">>),
            <<"&", "l", "t", ";">>, <<"<">>),
          <<"&", "g", "t", ";">>, <<">">>),
        <<"&", "q", "u", "o", "t", ";">>, <<"\"">>),
      <<"&", "#", "3", "9", ";">>, <<"'">>)

\* replace(/<[^>]*>/g, ' ')
RECURSIVE ReplaceTags(_)
ReplaceTags(s) ==
    IF s = <<>> THEN <<>>
    ELSE IF Head(s) = "<" /\ FirstIn(s, {">"}, 1) <= Len(s)
    THEN <<" ">> \o ReplaceTags(SubSeq(s, FirstIn(s, {">"}, 1) + 1, Len(s)))
    ELSE <<Head(s)>> \o ReplaceTags(Tail(s))

\* replace(/\s+/g, ' ')
RECURSIVE CollapseWs(_, _)
CollapseWs(s, afterWs) ==
    IF s = <<>> THEN <<>>
    ELSE IF ~IsWs(Head(s)) THEN <<Head(s)>> \o CollapseWs(Tail(s), FALSE)
    ELSE IF afterWs THEN CollapseWs(Tail(s), TRUE)
    ELSE <<" ">> \o CollapseWs(Tail(s), TRUE)

stripHtml(text) == Trim(CollapseWs(ReplaceTags(text), FALSE))

\* one <item> of a feed: the inner text of its title and link elements,
\* NoTag where the element is missing or does not match the pattern
NoTag == <<"#notag">>
FeedItem(title, link) == [title |-> title, link |-> link]

\* extractTagValue on an item
extractTagValue(inner) == IF inner = NoTag THEN <<>> ELSE decodeEntities(inner)

\* a wrong variant: the loop counts the items scanned, not the items kept
RECURSIVE parseFeed_CountsScanned(_, _)
parseFeed_CountsScanned(xml, limit) ==
    IF xml = <<>> \/ limit <= 0 THEN <<>>
    ELSE (IF stripHtml(extractTagValue(Head(xml).title)) # <<>>
          THEN <<[headline |-> stripHtml(extractTagValue(Head(xml).title)),
                  link |-> extractTagValue(Head(xml).link)]>>
          ELSE <<>>)
         \o parseFeed_CountsScanned(Tail(xml), limit - 1)

\* parseFeed: the loop scans the items in document order while fewer than
\* limit stories are kept, and keeps an item if its headline is not empty
RECURSIVE ParseLoop(_, _, _)
ParseLoop(xml, limit, items) ==
    IF ~(Len(items) < limit) \/ xml = <<>> THEN items
    ELSE ParseLoop(Tail(xml), limit,
             IF stripHtml(extractTagValue(Head(xml).title)) # <<>>
             THEN Append(items, [headline |-> stripHtml(extractTagValue(Head(xml).title)),
                                 link |-> extractTagValue(Head(xml).link)])
             ELSE items)
parseFeed(xml, limit) == ParseLoop(xml, limit, <<>>)

\* the titles and links of the feeds
RawTitles ==
    { NoTag,
      <<"a">>,
      <<" ", "b", " ", " ", "c", " ">>,
      <<"<", "i", ">", "<", "/", "i", ">">>,
      <<"&", "l", "t", ";", "b", "&", "g", "t", ";">>,
      <<"&", "a", "m", "p", ";", "l", "t", ";", "a">> }
FeedItems == {FeedItem(t, <<"/">> \o (IF t = NoTag THEN <<>> ELSE <<Head(t)>>)) : t \in RawTitles}
Feeds == UNION {[1..k -> FeedItems] : k \in 0..MaxFeedItems}

ParseIdle == pf = [pc |-> "idle", xml |-> <<>>, limit |-> 0, items |-> <<>>]

ParseInit ==
    \E xml \in Feeds, limit \in 0..MaxLimit :
        pf = [pc |-> "call", xml |-> xml, limit |-> limit, items |-> <<>>]

ParseReturns ==
    /\ pf.pc = "call"
    /\ pf' = [pf EXCEPT !.pc = "returned", !.items = parseFeed(pf.xml, pf.limit)]
    /\ UNCHANGED othersOfPf

(***************************************************************************)
(* newsService.js: fetchXml, fetchSourceStories, fetchTopNews; and         *)
(* GET /api/news-headlines (part_000 186-212, part_002 211-245)            *)
(***************************************************************************)
NEWS_SOURCES == << <<"B", "B", "C", " ", "N", "e", "w", "s">>, <<"N", "P", "R">> >>
SourceIdx == 1..Len(NEWS_SOURCES)

\* const limit = 120 in both handlers
NEWS_LIMIT == 120
MIN_ARTICLE_CHAR_LENGTH == 2000

\* the feeds the sources can serve
L1 == <<"/", "1">>
L2 == <<"/", "2">>
L3 == <<"/", "3">>
L4 == <<"/", "4">>
L5 == <<"/", "5">>
L6 == <<"/", "6">>
NewsFeeds ==
    { <<>>,
      <<FeedItem(<<"a">>, L1), FeedItem(<<"b">>, L2), FeedItem(<<"c">>, L3)>>,
      <<FeedItem(<<"d">>, L4), FeedItem(<<"e">>, L5), FeedItem(<<"f">>, L6)>>,
      <<FeedItem(<<"g">>, NoTag), FeedItem(<<"<", "i", ">", "<", "/", "i", ">">>, L2),
        FeedItem(<<"g">>, NoTag), FeedItem(<<"h">>, L1)>> }

\* what resolveArticleLength can find for a link; 0 also stands for a failed
\* article fetch
ArticleLengths == {0, MIN_ARTICLE_CHAR_LENGTH - 1, MIN_ARTICLE_CHAR_LENGTH}

\* fetchSourceStories: parseFeed(xml, limit).map(story => ({...story, source}))
SourceStories(xml, limit, s) ==
    [k \in 1..Len(parseFeed(xml, limit)) |->
        [headline |-> parseFeed(xml, limit)[k].headline,
         link |-> parseFeed(xml, limit)[k].link,
         source |-> NEWS_SOURCES[s]]]

\* a wrong variant: the results are joined in the order the sources completed
MergeResults_CompletionOrder(src, order) ==
    Flatten([k \in 1..Len(order) |-> src[order[k]].stories])

\* results.flat(): Promise.all keeps the order of NEWS_SOURCES
MergeResults(src, order) == Flatten([s \in SourceIdx |-> src[s].stories])

\* a wrong variant: the key never looks at the link
NewsKey_NoLink(story) == story.source \o <<":">> \o story.headline

\* story.link || `${story.source || 'source'}:${story.headline}`
NewsKey(story) ==
    IF story.link # <<>> THEN story.link
    ELSE story.source \o <<":">> \o story.headline

NoSource == [st |-> "none", xml |-> <<>>, failed |-> FALSE, stories |-> <<>>]
NwIdleValue ==
    [pc |-> "idle", reqLimit |-> 0, limit |-> 0, src |-> [s \in SourceIdx |-> NoSource],
     order |-> <<>>, stories |-> <<>>, idx |-> 0, seen |-> {}, cache |-> {},
     unique |-> <<>>, status |-> 0]
NewsIdle == nw = NwIdleValue

\* the loop is left: res.json({ stories: uniqueStories })
NwRespond(n) == [n EXCEPT !.pc = "done", !.status = 200]

\* one pass of the for loop over the story at idx; len is what
\* resolveArticleLength finds when the link is not cached
NwStep(n, len) ==
    LET story == n.stories[n.idx]
        key == NewsKey(story)
        cached == {c \in n.cache : c[1] = story.link}
        length == IF story.link = <<>> THEN 0
                  ELSE IF cached # {} THEN (CHOOSE c \in cached : TRUE)[2]
                  ELSE len
        next == [n EXCEPT !.idx = @ + 1]
        after(m) == IF m.idx > Len(m.stories) THEN NwRespond(m) ELSE m
    IN  IF story.headline = <<>> \/ (variant = "part_002" /\ story.link = <<>>)
        THEN after(next)
        ELSE IF key \in n.seen THEN after(next)
        ELSE IF variant = "part_002" /\ length < MIN_ARTICLE_CHAR_LENGTH
        THEN after([next EXCEPT !.seen = @ \cup {key},
                                !.cache = @ \cup {<<story.link, length>>}])
        ELSE IF Len(n.unique) + 1 >= n.limit
        THEN NwRespond([next EXCEPT !.seen = @ \cup {key},
                           !.cache = IF variant = "part_002"
                                     THEN @ \cup {<<story.link, length>>} ELSE @,
                           !.unique = Append(@, [headline |-> story.headline,
                                                 source |-> story.source,
                                                 link |-> story.link])])
        ELSE after([next EXCEPT !.seen = @ \cup {key},
                       !.cache = IF variant = "part_002"
                                 THEN @ \cup {<<story.link, length>>} ELSE @,
                       !.unique = Append(@, [headline |-> story.headline,
                                             source |-> story.source,
                                             link |-> story.link])])

\* the loop of part_000 has no await and runs to its end
RECURSIVE NwRunLoop(_)
NwRunLoop(n) == IF n.pc = "done" THEN n ELSE NwRunLoop(NwStep(n, 0))

\* a source has settled: once all have, Promise.all resolves, fetchTopNews
\* returns and the handler starts its loop
NwAfterSettle(n) ==
    IF \E s \in SourceIdx : n.src[s].st # "settled" THEN n
    ELSE LET m == [n EXCEPT !.stories = MergeResults(n.src, n.order), !.idx = 1,
                            !.pc = "loop"]
         IN  IF m.stories = <<>> THEN NwRespond(m)
             ELSE IF variant = "part_000" THEN NwRunLoop(m)
             ELSE m

NwSettled(n, s, xml, failed) ==
    NwAfterSettle([n EXCEPT !.src[s] = [st |-> "settled", xml |-> xml, failed |-> failed,
                                        stories |-> SourceStories(xml, n.limit, s)],
                            !.order = Append(@, s)])

\* the handler calls fetchTopNews(limit): every source is fetched at once,
\* with fetch where the runtime has it and else with the https module
NwRequest ==
    /\ nw.pc = "idle"
    /\ \E reqLimit \in {2, 5}, hasFetch \in BOOLEAN :
         nw' = [nw EXCEPT !.pc = "fetching", !.reqLimit = reqLimit, !.limit = NEWS_LIMIT,
                          !.src = [s \in SourceIdx |->
                                     [NoSource EXCEPT !.st = IF hasFetch THEN "fetch"
                                                             ELSE "https"]]]
    /\ UNCHANGED othersOfNw

\* fetch(url) of one source settles: the text of a 2xx answer is parsed, and
\* anything else is retried with fetchWithHttps
NwFetchSettles ==
    /\ nw.pc = "fetching"
    /\ \E s \in SourceIdx :
         /\ nw.src[s].st = "fetch"
         /\ \/ \E xml \in NewsFeeds : nw' = NwSettled(nw, s, xml, FALSE)
            \/ nw' = [nw EXCEPT !.src[s].st = "https"]
    /\ UNCHANGED othersOfNw

\* fetchWithHttps of one source: the body arrives whole; or the request fails
\* or is answered 4xx/5xx and the catch of fetchSourceStories returns [];
\* or the connection closes inside the body, where nothing listens on the
\* response: its promise never settles, or the 'error' event of the response
\* is thrown as an uncaught exception
NwHttpsSettles ==
    /\ nw.pc = "fetching"
    /\ \E s \in SourceIdx :
         /\ nw.src[s].st = "https"
         /\ \/ \E xml \in NewsFeeds : nw' = NwSettled(nw, s, xml, FALSE)
            \/ nw' = NwSettled(nw, s, <<>>, TRUE)
            \/ nw' = [nw EXCEPT !.src[s].st = "lost"]
            \/ nw' = [nw EXCEPT !.src[s].st = "lost", !.pc = "crashed"]
    /\ UNCHANGED othersOfNw

\* part_002: resolveArticleLength settles for the story at idx
NwLengthResolved ==
    /\ nw.pc = "loop"
    /\ \E len \in ArticleLengths : nw' = NwStep(nw, len)
    /\ UNCHANGED othersOfNw

(***************************************************************************)
(* articleService.js: extractCandidateBlocks, extractParagraphs,           *)
(* mergeParagraphs, fetchArticleContent                                    *)
(***************************************************************************)
MIN_PARAGRAPH_CHARS == 60
MIN_CANDIDATE_CHARS == 400
MIN_FALLBACK_CHARS == 200

\* a <p> element after stripTags, decodeEntities and normaliseWhitespace:
\* its text, the text in lower case, and the length of the text
Paragraph(text, key, len) == [text |-> text, key |-> key, len |-> len]
ParagraphPool ==
    { Paragraph(<<"A">>, <<"a">>, MIN_CANDIDATE_CHARS + 50),
      Paragraph(<<"B">>, <<"b">>, MIN_FALLBACK_CHARS + 50),
      Paragraph(<<"b">>, <<"b">>, MIN_FALLBACK_CHARS + 50),
      Paragraph(<<"C">>, <<"c">>, MIN_FALLBACK_CHARS - 50),
      Paragraph(<<"s">>, <<"s">>, MIN_PARAGRAPH_CHARS - 50) }

\* the first match of <article>, <main> or <body> in a page: the paragraphs
\* from..to of the page, none if from > to
NoBlock == [present |-> FALSE, from |-> 0, to |-> 0]
BlocksOf(n) ==
    {NoBlock, [present |-> TRUE, from |-> 1, to |-> 0]}
    \cup {[present |-> TRUE, from |-> i, to |-> j] : i \in 1..n, j \in 1..n}
Page(paras, article, main, body) ==
    [paras |-> paras, article |-> article, main |-> main, body |-> body]

BlockParas(page, block) ==
    IF block.from > block.to THEN <<>> ELSE SubSeq(page.paras, block.from, block.to)

\* a wrong variant: the body comes first
extractCandidateBlocks_BodyFirst(page) ==
    (IF page.body.present THEN <<BlockParas(page, page.body)>> ELSE <<page.paras>>)
    \o (IF page.article.present THEN <<BlockParas(page, page.article)>> ELSE <<>>)
    \o (IF page.main.present THEN <<BlockParas(page, page.main)>> ELSE <<>>)

\* extractCandidateBlocks: the article match, the main match, and the body
\* match or else the whole page
extractCandidateBlocks(page) ==
    (IF page.article.present THEN <<BlockParas(page, page.article)>> ELSE <<>>)
    \o (IF page.main.present THEN <<BlockParas(page, page.main)>> ELSE <<>>)
    \o (IF page.body.present THEN <<BlockParas(page, page.body)>> ELSE <<page.paras>>)

RECURSIVE SumLen(_)
SumLen(paras) == IF paras = <<>> THEN 0 ELSE Head(paras).len + SumLen(Tail(paras))

\* extractParagraphs: the paragraphs longer than 60 characters, or, when
\* there is none, the stripped text of the whole block as one paragraph
extractParagraphs(paras) ==
    IF SelectSeq(paras, LAMBDA p : p.len > MIN_PARAGRAPH_CHARS) # <<>>
    THEN SelectSeq(paras, LAMBDA p : p.len > MIN_PARAGRAPH_CHARS)
    ELSE IF paras = <<>> THEN <<>>
    ELSE <<Paragraph(<<"#text">> \o Flatten([k \in 1..Len(paras) |-> paras[k].text]),
                     <<"#text">> \o Flatten([k \in 1..Len(paras) |-> paras[k].key]),
                     SumLen(paras) + Len(paras) - 1)>>

\* mergeParagraphs: the first paragraph of every lower-cased text
RECURSIVE mergeParagraphs(_)
mergeParagraphs(paras) ==
    IF paras = <<>> THEN <<>>
    ELSE IF \E k \in 1..(Len(paras) - 1) : paras[k].key = paras[Len(paras)].key
    THEN mergeParagraphs(SubSeq(paras, 1, Len(paras) - 1))
    ELSE Append(mergeParagraphs(SubSeq(paras, 1, Len(paras) - 1)), paras[Len(paras)])

\* paragraphs.join('\n\n'): the texts joined, and the length of the result
JoinParagraphs(paras) ==
    [text |-> [k \in 1..Len(paras) |-> paras[k].text],
     len |-> IF paras = <<>> THEN 0 ELSE SumLen(paras) + 2 * (Len(paras) - 1)]
CandidateOf(paras) == JoinParagraphs(mergeParagraphs(extractParagraphs(paras)))

\* the for loop over the blocks: the first candidate longer than 400
\* characters, or 0 for none
FirstGoodBlock(blocks) ==
    IF \E k \in 1..Len(blocks) : CandidateOf(blocks[k]).len > MIN_CANDIDATE_CHARS
    THEN CHOOSE k \in 1..Len(blocks) :
            /\ CandidateOf(blocks[k]).len > MIN_CANDIDATE_CHARS
            /\ \A j \in 1..(k - 1) : ~(CandidateOf(blocks[j]).len > MIN_CANDIDATE_CHARS)
    ELSE 0

NoText == [text |-> <<>>, len |-> 0]
ArIdleValue == [pc |-> "idle", status |-> 0, page |-> Page(<<>>, NoBlock, NoBlock, NoBlock),
                error |-> "", result |-> NoText]
ArticleIdle == ar = ArIdleValue

\* fetchArticleContent(url) with a url that is a non-empty string: the fetch
\* is sent
ArCall ==
    /\ ar.pc = "idle"
    /\ ar' = [ar EXCEPT !.pc = "fetch"]
    /\ UNCHANGED othersOfAr

\* the fetch rejects, or is answered: a non-2xx status throws, a 2xx page is
\* read and searched
ArAnswered ==
    /\ ar.pc = "fetch"
    /\ \/ ar' = [ar EXCEPT !.pc = "threw", !.error = "network"]
       \/ \E st \in {403, 404, 500} :
            ar' = [ar EXCEPT !.pc = "threw", !.status = st,
                             !.error = "Failed to retrieve article (status)"]
       \/ \E n \in 0..MaxParagraphs :
            \E paras \in [1..n -> ParagraphPool], a \in BlocksOf(n), m \in BlocksOf(n),
               b \in BlocksOf(n) :
            \E page \in {Page(paras, a, m, b)} :
            \E blocks \in {extractCandidateBlocks(page)} :
              \E k \in {FirstGoodBlock(blocks)} :
                ar' = IF k # 0
                      THEN [ar EXCEPT !.pc = "returned", !.status = 200, !.page = page,
                                      !.result = CandidateOf(blocks[k])]
                      ELSE IF CandidateOf(page.paras).len > MIN_FALLBACK_CHARS
                      THEN [ar EXCEPT !.pc = "returned", !.status = 200, !.page = page,
                                      !.result = CandidateOf(page.paras)]
                      ELSE [ar EXCEPT !.pc = "threw", !.status = 200, !.page = page,
                                      !.error = "Unable to extract article content"]
    /\ UNCHANGED othersOfAr

(***************************************************************************)
(* normalizeSunoAudioUrl applied once and applied again to its own result  *)
(***************************************************************************)
NormalizeInputs ==
    {UNDEFINED}
    \cup {pre \o body \o suf : pre \in {<<>>, <<" ">>},
                               body \in RelaySrcs,
                               suf \in {<<>>, <<" ">>, <<"\n">>}}
NormalizeIdle ==
    nz = [pc |-> "idle", value |-> UNDEFINED, migrateHost |-> FALSE,
          once |-> <<>>, twice |-> <<>>]

NzApply ==
    /\ nz.pc = "idle"
    /\ \E once \in {normalizeSunoAudioUrl(nz.value, nz.migrateHost)} :
         nz' = [nz EXCEPT !.pc = "once", !.once = once]
    /\ UNCHANGED othersOfNz

NzApplyAgain ==
    /\ nz.pc = "once"
    /\ \E twice \in {normalizeSunoAudioUrl(nz.once, nz.migrateHost)} :
         nz' = [nz EXCEPT !.pc = "twice", !.twice = twice]
    /\ UNCHANGED othersOfNz

(***************************************************************************)
(* Specifications: one per component, the other components at rest         *)
(***************************************************************************)
InitLimit ==
    /\ variant \in VARIANTS
    /\ LimInit
    /\ EnvIdle
    /\ SynIdle
    /\ GsIdle
    /\ RelayIdle
    /\ StatusIdle
    /\ PodcastIdle
    /\ PollIdle
    /\ SubmitIdle
    /\ ParseIdle
    /\ NewsIdle
    /\ ArticleIdle
    /\ NormalizeIdle
NextLimit == ApplyLimit \/ ReapplyLimit
SpecLimit == InitLimit /\ [][NextLimit]_vars

InitSong ==
    /\ variant \in VARIANTS
    /\ EnvInit
    /\ LimIdle
    /\ SynIdle
    /\ GsIdle
    /\ RelayIdle
    /\ StatusIdle
    /\ PodcastIdle
    /\ PollIdle
    /\ SubmitIdle
    /\ ParseIdle
    /\ NewsIdle
    /\ ArticleIdle
    /\ NormalizeIdle

NextSong ==
    \/ GsRequest
    \/ GsArticleFetched
    \/ GsNewsFetched
    \/ SynIssue
    \/ SynRespond
    \/ SynWake
    \/ GsSynthEnded
    \/ GsCreateAnswered

SpecSong == InitSong /\ [][NextSong]_vars

\* the event loop runs every continuation that is ready
FairSpecSong == SpecSong /\ WF_vars(NextSong)

InitRelay ==
    /\ variant = "part_002"
    /\ LimIdle
    /\ EnvIdle
    /\ SynIdle
    /\ GsIdle
    /\ RelayIdle
    /\ StatusIdle
    /\ PodcastIdle
    /\ PollIdle
    /\ SubmitIdle
    /\ ParseIdle
    /\ NewsIdle
    /\ ArticleIdle
    /\ NormalizeIdle

NextRelay == RelayRequest \/ RelayUpstream \/ RelayNext

SpecRelay == InitRelay /\ [][NextRelay]_vars

InitStatus ==
    /\ variant = "part_002"
    /\ LimIdle
    /\ EnvInit
    /\ SynIdle
    /\ GsIdle
    /\ RelayIdle
    /\ StatusIdle
    /\ PodcastIdle
    /\ PollIdle
    /\ SubmitIdle
    /\ ParseIdle
    /\ NewsIdle
    /\ ArticleIdle
    /\ NormalizeIdle

NextStatus == StRequest \/ StQuerySettles \/ StListSettles

SpecStatus == InitStatus /\ [][NextStatus]_vars

InitPodcast ==
    /\ variant = "part_002"
    /\ LimIdle
    /\ EnvInit
    /\ SynIdle
    /\ GsIdle
    /\ RelayIdle
    /\ StatusIdle
    /\ PodcastIdle
    /\ PollIdle
    /\ SubmitIdle
    /\ ParseIdle
    /\ NewsIdle
    /\ ArticleIdle
    /\ NormalizeIdle

NextPodcast ==
    \/ PdRequest
    \/ PdPlannerAnswers
    \/ PdArticleAnswers
    \/ PdDeepAnswers
    \/ PdSummarizeEnds
    \/ PdCreateAnswers
    \/ PdNext

SpecPodcast == InitPodcast /\ [][NextPodcast]_vars

\* pollForAudio; the event loop runs every continuation that is ready and
\* every status request completes
InitPoll ==
    /\ variant = "part_000"
    /\ LimIdle
    /\ EnvIdle
    /\ SynIdle
    /\ GsIdle
    /\ RelayIdle
    /\ StatusIdle
    /\ PodcastIdle
    /\ PollInit
    /\ SubmitIdle
    /\ ParseIdle
    /\ NewsIdle
    /\ ArticleIdle
    /\ NormalizeIdle

NextPoll == PollCheck \/ PollAnswered \/ PollWake

SpecPoll == InitPoll /\ [][NextPoll]_vars /\ WF_vars(NextPoll)

\* the IDs of a create response, on both submission paths
InitSubmit ==
    /\ variant = "part_002"
    /\ LimIdle
    /\ EnvIdle
    /\ SynIdle
    /\ GsIdle
    /\ RelayIdle
    /\ StatusIdle
    /\ PodcastIdle
    /\ PollIdle
    /\ SubmitInit
    /\ ParseIdle
    /\ NewsIdle
    /\ ArticleIdle
    /\ NormalizeIdle

NextSubmit == SbSongResponds \/ SbStoryResponds

SpecSubmit == InitSubmit /\ [][NextSubmit]_vars

\* parseFeed applied to one feed
InitFeed ==
    /\ variant = "part_002"
    /\ LimIdle
    /\ EnvIdle
    /\ SynIdle
    /\ GsIdle
    /\ RelayIdle
    /\ StatusIdle
    /\ PodcastIdle
    /\ PollIdle
    /\ SubmitIdle
    /\ ParseInit
    /\ NewsIdle
    /\ ArticleIdle
    /\ NormalizeIdle

NextFeed == ParseReturns

SpecFeed == InitFeed /\ [][NextFeed]_vars

\* the feed aggregator behind /api/news-headlines, in both server files
InitNews ==
    /\ variant \in VARIANTS
    /\ LimIdle
    /\ EnvIdle
    /\ SynIdle
    /\ GsIdle
    /\ RelayIdle
    /\ StatusIdle
    /\ PodcastIdle
    /\ PollIdle
    /\ SubmitIdle
    /\ ParseIdle
    /\ NewsIdle
    /\ ArticleIdle
    /\ NormalizeIdle

NextNews == NwRequest \/ NwFetchSettles \/ NwHttpsSettles \/ NwLengthResolved

SpecNews == InitNews /\ [][NextNews]_vars

\* fetchArticleContent
InitArticle ==
    /\ variant = "part_002"
    /\ LimIdle
    /\ EnvIdle
    /\ SynIdle
    /\ GsIdle
    /\ RelayIdle
    /\ StatusIdle
    /\ PodcastIdle
    /\ PollIdle
    /\ SubmitIdle
    /\ ParseIdle
    /\ NewsIdle
    /\ ArticleIdle
    /\ NormalizeIdle

NextArticle == ArCall \/ ArAnswered

SpecArticle == InitArticle /\ [][NextArticle]_vars

\* normalizeSunoAudioUrl
InitNormalize ==
    /\ variant \in VARIANTS
    /\ LimIdle
    /\ EnvIdle
    /\ SynIdle
    /\ GsIdle
    /\ RelayIdle
    /\ StatusIdle
    /\ PodcastIdle
    /\ PollIdle
    /\ SubmitIdle
    /\ ParseIdle
    /\ NewsIdle
    /\ ArticleIdle
    /\ nz \in {[pc |-> "idle", value |-> v, migrateHost |-> m, once |-> <<>>, twice |-> <<>>] :
                 v \in NormalizeInputs, m \in BOOLEAN}

NextNormalize == NzApply \/ NzApplyAgain

SpecNormalize == InitNormalize /\ [][NextNormalize]_vars

\* the status endpoint of the older server file
InitStatusOld ==
    /\ variant = "part_000"
    /\ LimIdle
    /\ EnvInit
    /\ SynIdle
    /\ GsIdle
    /\ RelayIdle
    /\ StatusIdle
    /\ PodcastIdle
    /\ PollIdle
    /\ SubmitIdle
    /\ ParseIdle
    /\ NewsIdle
    /\ ArticleIdle
    /\ NormalizeIdle

SpecStatusOld == InitStatusOld /\ [][NextStatus]_vars

(***************************************************************************)
(* Claims about the length cap                                             *)
(***************************************************************************)
EndsWith(s, t) ==
    /\ Len(s) >= Len(t)
    /\ SubSeq(s, Len(s) - Len(t) + 1, Len(s)) = t

IsPrefixOf(p, s) == Len(p) <= Len(s) /\ SubSeq(s, 1, Len(p)) = p

\* C7: for any text T and cap C the length-capping step returns a string of
\* length at most C, also when it is applied to its own output.
C7_CapRespected ==
    limPc \in {"out", "out2"} => Len(limOut) <= limMax

BeforeMarker(s) == SubSeq(s, 1, Len(s) - Len(ELLIPSIS))

Requests(m) == Len(SelectSeq(synTrace[m], LAMBDA e : e = 0))
Sleeps(m) == SelectSeq(synTrace[m], LAMBDA e : e > 0)
Requested(m) == synTrace[m] # <<>>
CallEnded == synPc \in {"returned", "threw"}
\* the loop is past model m
Left(m) == Requested(m) /\ (synModel > m \/ CallEnded)

\* the latest answer of model m: a 2xx with non-empty text; a failure that
\* is neither a 5xx nor a network failure; any failure
GotText(m) ==
    synLast[m].kind = "http" /\ HttpOk(synLast[m].status) /\ synLast[m].text
NonRetryableFailure(m) ==
    synLast[m].kind = "http" /\ ~HttpOk(synLast[m].status) /\ synLast[m].status < 500
Failed(m) ==
    \/ synLast[m].kind = "network"
    \/ synLast[m].kind = "http" /\ ~(HttpOk(synLast[m].status) /\ synLast[m].text)
\* text the multi-headline path does not take: it has no word character
TextWithoutWord(m) ==
    synPath = "lyrics" /\ GotText(m) /\ ~HasWordChar(synContent[m])

NoLaterRequest(m) == \A k \in ModelIdx : k > m => ~Requested(k)
\* the latest request of model m was answered and nothing followed it
EndsWithAnsweredRequest(m) ==
    /\ Requested(m)
    /\ synTrace[m][Len(synTrace[m])] = 0
    /\ \A q \in synInflight : q[1] # m

\* C2 as stated: once a model's request returns non-empty text, no further
\* request is issued to it or to a later model, and the call returns that
\* text after length capping, on both paths.
C2_AsStated ==
    \A m \in ModelIdx :
        GotText(m) =>
            /\ synPc = "returned"
            /\ synResult = enforcePromptLimit(synContent[m], SUNO_PROMPT_MAX_CHARS)
            /\ EndsWithAnsweredRequest(m)
            /\ NoLaterRequest(m)

\* C2 amended: the summarization path stops at the first non-empty text; the
\* multi-headline path stops at the first non-empty text that has a word
\* character, and treats text without one like a failed model: it goes on to
\* the next model without retrying, or to the digest after the last model.
C2_FirstAcceptedTextWins ==
    \A m \in ModelIdx :
        GotText(m) =>
            /\ EndsWithAnsweredRequest(m)
            /\ IF TextWithoutWord(m)
               THEN Left(m) /\ (m = Len(LYRIC_MODELS) =>
                        synResult = enforcePromptLimit(synDigest, SUNO_PROMPT_MAX_CHARS))
               ELSE /\ synPc = "returned"
                    /\ synResult = enforcePromptLimit(synContent[m], SUNO_PROMPT_MAX_CHARS)
                    /\ NoLaterRequest(m)

\* the first model answered text without a word character on the
\* multi-headline path and the second model's text ended the call
C2_Witness ==
    /\ synPath = "lyrics"
    /\ TextWithoutWord(1)
    /\ GotText(2) /\ ~TextWithoutWord(2)
    /\ synPc = "returned"
    /\ Len(synResult) > 0

\* C3 as stated: a model whose request ends in a non-retryable failure
\* receives exactly one request in the call.
C3_AsStated ==
    \A m \in ModelIdx :
        NonRetryableFailure(m) => Requests(m) = 1 /\ Left(m)

\* C3 amended: a request that ends in a non-retryable failure is the last
\* request its model receives: no sleep and no retry follow it and the loop
\* moves on to the next model (or ends after the last one). The model has
\* received exactly one request when the failure answered its first attempt.
C3_TerminalFailureEndsModel ==
    \A m \in ModelIdx :
        NonRetryableFailure(m) =>
            /\ EndsWithAnsweredRequest(m)
            /\ Left(m)
            /\ Len(Sleeps(m)) = Requests(m) - 1
            /\ Requests(m) <= AttemptsArg
            /\ (m < Len(LYRIC_MODELS) /\ ~CallEnded) =>
                  synModel > m /\ (synModel > m + 1 => Requested(m + 1))

\* a 404 answered the second attempt on the first model, after a retried
\* failure, and the second model has been requested
C3_Witness ==
    /\ NonRetryableFailure(1)
    /\ Requests(1) = 2
    /\ Requested(2)

\* C4: a model whose every attempt fails with a 5xx or a network failure is
\* requested exactly 3 times, with waits of 750 ms and 1500 ms between the
\* attempts and none after the last, before the loop leaves it.
C4_ThreeAttemptsWithBackoff ==
    \A m \in ModelIdx :
        (Left(m) /\ synOnly5xxNet[m]) => synTrace[m] = <<0, 750, 0, 1500, 0>>

\* C5 as stated: at most one request in flight, and model k+1 is requested
\* only after every attempt on model k has ended in failure.
C5_AsStated ==
    /\ Cardinality(synInflight) <= 1
    /\ \A k \in ModelIdx :
         (k + 1 \in ModelIdx /\ Requested(k + 1)) =>
             EndsWithAnsweredRequest(k) /\ Failed(k)

\* C5 amended: at most one request is in flight, and model k+1 is requested
\* only after the latest attempt on model k has ended, in failure or, on the
\* multi-headline path, in text without a word character; model k is not
\* requested again afterwards.
C5_Sequential ==
    /\ Cardinality(synInflight) <= 1
    /\ \A k \in ModelIdx :
         (k + 1 \in ModelIdx /\ Requested(k + 1)) =>
             /\ EndsWithAnsweredRequest(k)
             /\ Failed(k) \/ TextWithoutWord(k)
             /\ synModel > k

\* the second model has a request in flight after three failed attempts on
\* the first
C5_Witness ==
    /\ Requests(1) = 3
    /\ synInflight = {<<2, 0>>}

\* the text of model m ended the call
WinningText(m) == GotText(m) /\ ~TextWithoutWord(m)
Exhausted == CallEnded /\ \A m \in ModelIdx : Requested(m) /\ ~WinningText(m)

\* C6: when every model is exhausted without text, the summarization path
\* fails (the handler answers 502 and sends no create call), and the
\* multi-headline path returns the length-capped digest of the formatted
\* headlines, whose capped form is then sent in the one create call.
C6_ExhaustedModels ==
    Exhausted =>
        IF synPath = "summarize"
        THEN /\ synPc = "threw"
             /\ gsCreates = 0
             /\ gsPc # "synth" => (gsPc = "done" /\ gsStatus = 502)
        ELSE /\ synPc = "returned"
             /\ synResult = enforcePromptLimit(synDigest, SUNO_PROMPT_MAX_CHARS)
             /\ gsPc # "synth" =>
                    /\ gsCreates = 1
                    /\ gsPrompt = enforcePromptLimit(synResult, SUNO_PROMPT_MAX_CHARS)

\* every model failed on the multi-headline path and the create call made
\* with the digest was answered
C6_Witness ==
    /\ synPath = "lyrics"
    /\ Exhausted
    /\ \A m \in ModelIdx : Failed(m)
    /\ synDigest # <<>>
    /\ gsPrompt # <<>>
    /\ gsCreates = 1
    /\ gsStatus = 202

\* C7 on the synthesizer's paths: the returned text and the prompt of the
\* create call are at most SUNO_PROMPT_MAX_CHARS long.
C7_SynthesizerWithinCap ==
    /\ synPc = "returned" => Len(synResult) <= SUNO_PROMPT_MAX_CHARS
    /\ gsCreates > 0 => Len(gsPrompt) <= SUNO_PROMPT_MAX_CHARS

(***************************************************************************)
(* Claims about the audio relay                                            *)
(***************************************************************************)
\* the host equals an allowlisted host or is a subdomain of one
OnAllowlist(host) ==
    \E a \in ALLOWED_AUDIO_HOSTS :
        LET h == toLowerCase(host)
            n == Len(h) - Len(a)
        IN  \/ h = a
            \/ n >= 2 /\ SubSeq(h, n + 1, Len(h)) = a /\ h[n] = "."

RelayReceived == rlPc # "idle" \/ rlServed > 0

\* C1: a src that is not HTTPS is answered 400 and an HTTPS src whose host is
\* neither an allowlisted host nor a subdomain of one is answered 403, and in
\* both cases no outbound fetch is issued; a fetch is issued only for an HTTPS
\* src on the allowlist.
C1_RelayValidation ==
    LET url == URLParse(rlSrc)
        https == url.ok /\ url.protocol = <<"h", "t", "t", "p", "s", ":">>
    IN  RelayReceived =>
          /\ ~https => (rlPc = "idle" \/ rlStatus = 400) /\ rlFetches = 0
          /\ https /\ ~OnAllowlist(url.hostname) =>
                (rlPc = "idle" \/ rlStatus = 403) /\ rlFetches = 0
          /\ rlPc = "done" /\ ~https => rlStatus = 400
          /\ rlPc = "done" /\ https /\ ~OnAllowlist(url.hostname) => rlStatus = 403
          /\ rlFetches > 0 => https /\ OnAllowlist(url.hostname)

\* a look-alike host that only ends with an allowlisted name was refused
C1_Witness ==
    /\ rlPc = "done"
    /\ rlSrc = Src(Https, <<"e", "v", "i", "l">> \o Cdn1)
    /\ rlStatus = 403
    /\ rlFetches = 0

(***************************************************************************)
(* Claims about the status endpoint                                        *)
(***************************************************************************)
Answered(i, statuses) ==
    stResults[i].kind = "http" /\ stResults[i].status \in statuses
Queries == 1..Len(stResults)
PolledByTask == stPc = "done" /\ Len(stResults) > 0
SomeQueryThrew == \E i \in Queries : stResults[i].kind = "threw"
AuthAnswered == {i \in Queries : Answered(i, {401, 403})}
Smallest(S) == CHOOSE i \in S : \A j \in S : i <= j

PendingAnswered == SelectSeq([i \in Queries |-> i], LAMBDA i : Answered(i, {400, 404, 422}))
OkRows ==
    Flatten([i \in Queries |-> IF Answered(i, {200}) THEN stResults[i].data ELSE <<>>])
PendingRecord(id) ==
    [task_id |-> id, clip_id |-> UNDEFINED, state |-> "pending", audio_url |-> <<>>]
\* the records after those of the answered queries are the pending ones, one
\* per query answered 400, 404 or 422, in request order
PendingContributions ==
    /\ stStatus = 200
    /\ Len(stData) = Len(OkRows) + Len(PendingAnswered)
    /\ \A k \in 1..Len(PendingAnswered) :
          stData[Len(OkRows) + k] = PendingRecord(stTaskIds[PendingAnswered[k]])

OtherFailure(i) ==
    /\ stResults[i].kind \in {"http", "threw"}
    /\ stResults[i].status # 0
    /\ ~HttpOk(stResults[i].status)
    /\ stResults[i].status \notin {400, 401, 403, 404, 422}

\* C11: a per-id query answered with another non-2xx status contributes no
\* record, and the response is still 200 with the records of the other ids.
C11_AsStated ==
    PolledByTask /\ (\E i \in Queries : OtherFailure(i)) =>
        /\ stStatus = 200
        /\ Len(stData) = Len(OkRows) + Len(PendingAnswered)

\* C12: every job record of a response has one of the recognized states.
C12_RecognizedStates ==
    stPc = "done" =>
        \A k \in 1..Len(stData) :
            stData[k].state \in {"pending", "succeeded", "failed", "auth_error"}

(***************************************************************************)
(* Claims about the podcast endpoint                                       *)
(***************************************************************************)
\* C13: the model text a podcast request parses into its plan was returned
\* by a planner call made for that request.
C13_OwnPlannerText ==
    pd.parsed # <<>> => pd.parsed[1] \in pd.own

\* the first three returned selections with a headline, as texts
ReturnedHeadlines(raw) ==
    LET named == SelectSeq(raw.selections, LAMBDA e : Trim(e.headline) # <<>>)
    IN  [k \in 1..(IF Len(named) < 3 THEN Len(named) ELSE 3) |-> Trim(named[k].headline)]
\* 100 times the token overlap of a returned headline and a candidate's
\* is at least 35 times the size of the larger token set
OverlapEnough(returned, candidate) ==
    LET ta == TokenSet(normalizeHeadlineKey(returned))
        tb == TokenSet(normalizeHeadlineKey(candidate))
        larger == IF Cardinality(ta) > Cardinality(tb) THEN ta ELSE tb
    IN  100 * Cardinality(ta \cap tb) >= 35 * Cardinality(larger)
\* no candidate scores higher against the returned headline than candidate c
BestOf(returned, c, stories) ==
    \A d \in 1..Len(stories) :
        ScoreGe(scoreSimilarity(normalizeHeadlineKey(returned),
                                normalizeHeadlineKey(stories[c].headline)),
                scoreSimilarity(normalizeHeadlineKey(returned),
                                normalizeHeadlineKey(stories[d].headline)))
Matches(returned, stories) ==
    \E c \in 1..Len(stories) : OverlapEnough(returned, stories[c].headline)
PlanSucceeded == pd.planned # <<>>

\* C14: a plan succeeds only with a non-empty overview and exactly 3
\* selections, each a returned headline whose overlap with some candidate is
\* at least 0.35 and which now carries that candidate's exact headline; when
\* fewer than 3 of the returned headlines match, the plan fails with 502.
C14_PlanValidated ==
    pd.parsed # <<>> =>
        LET raw == pd.parsed[1]
            returned == ReturnedHeadlines(raw)
        IN  /\ PlanSucceeded =>
                  /\ raw.json
                  /\ pd.overview # <<>> /\ pd.overview = Trim(raw.overview)
                  /\ Len(pd.planned) = 3 /\ Len(returned) = 3
                  /\ \A k \in 1..3 :
                        \E c \in 1..Len(pd.stories) :
                            /\ OverlapEnough(returned[k], pd.stories[c].headline)
                            /\ BestOf(returned[k], c, pd.stories)
                            /\ pd.planned[k].headline = pd.stories[c].headline
            /\ (\E k \in 1..Len(returned) : ~Matches(returned[k], pd.stories)) \/ Len(returned) < 3
                  => ~PlanSucceeded /\ pd.status = 502 /\ pd.selections = <<>>

\* a returned headline that shares one of its two tokens with a candidate
\* was replaced by the candidate's headline
C14_Witness ==
    /\ pd.pc = "done"
    /\ pd.status = 200
    /\ pd.parsed = <<PlanMatching>>
    /\ pd.planned[3].headline = StoryE.headline
    /\ pd.planned[1].headline = StoryAB.headline

\* C15: a plan-phase request makes no call but planner calls, and its 200
\* response holds the overview and the 3 matched selections with empty
\* articleContent, songPrompt, songTaskIds and songClipIds.
C15_PlanPhaseFrame ==
    pd.plan =>
        /\ pd.calls.article = 0 /\ pd.calls.deepdive = 0
        /\ pd.calls.summarize = 0 /\ pd.calls.create = 0
        /\ pd.pc = "done" /\ pd.status = 200 =>
              /\ pd.calls.planner >= 1
              /\ pd.overview = Trim(pd.parsed[1].overview)
              /\ Len(pd.selections) = 3
              /\ \A k \in 1..3 :
                    /\ pd.selections[k].headline = pd.planned[k].headline
                    /\ pd.selections[k].overviewScript = pd.planned[k].host_script
                    /\ pd.selections[k].articleContent = <<>>
                    /\ pd.selections[k].songPrompt = <<>>
                    /\ pd.selections[k].songTaskIds = <<>>
                    /\ pd.selections[k].songClipIds = <<>>

\* a request with phase=Plan was answered with its three selections
C15_Witness ==
    /\ pd.plan
    /\ pd.pc = "done"
    /\ pd.status = 200
    /\ Len(pd.selections) = 3
    /\ pd.calls.planner = 2

\* C16: in the full phase a story whose job submission fails is left out and
\* the episode is still answered 200.
C16_FailedSubmissionDropsStory ==
    pd.pc = "done" /\ pd.createFailed # {} =>
        /\ pd.status = 200
        /\ \A k \in pd.createFailed :
              \A j \in 1..Len(pd.selections) :
                  pd.selections[j].headline # pd.selected[k].headline

OwnDeepEntry(k) ==
    \A j \in 1..(k - 1) : pd.selected[j].headline # pd.selected[k].headline

C18_MissingKeyFailsFast ==
    /\ gsPc = "done" /\ (~envSunoKey \/ ~envOpenRouterKey) =>
          gsStatus = 500 /\ gsCreates = 0 /\ synPath = "none"
    /\ stPc = "done" /\ ~envSunoKey =>
          stStatus = 500 /\ stTaskCalls = 0 /\ stListCalls = 0
    /\ pd.pc = "done" /\ pd.stories # <<>>
          /\ (~envOpenRouterKey \/ (~pd.plan /\ ~envSunoKey)) =>
          pd.status = 500 /\ pd.calls = NoCalls

(***************************************************************************)
(* Claims about the request boundary                                       *)
(***************************************************************************)
\* C19: every request to /api/generate-song is eventually answered, also
\* when an outbound call made for it throws.
C19_EveryRequestAnswered == (gsPc # "idle") ~> (gsPc = "done")

(***************************************************************************)
(* Claims about pollForAudio                                               *)
(***************************************************************************)
PollEnded == pl.pc \in {"returned", "timedout"}

\* what holds at every moment of a call of pollForAudio
PollSafe ==
    /\ (pl.pc = "returned") =>
           (pl.result.state = "succeeded" /\ pl.result.audio_url # <<>>)
    /\ (pl.pc # "returned") => (pl.result = NoRecord)
    /\ (pl.pc = "request") => (pl.now - pl.start < pl.timeoutMs)
    /\ (pl.pc = "timedout") => (pl.now - pl.start >= pl.timeoutMs)

\* C20: pollForAudio ends: it returns a record in state 'succeeded' with a
\* non-empty audio_url or throws the time-out error; a status request is
\* sent only while the elapsed time is below timeoutMs, and a time-out is
\* thrown only once it has reached timeoutMs.
C20_PollTerminates == <>PollEnded /\ []PollSafe

\* the loop polled three times without a finished record and timed out
C20_Witness ==
    /\ pl.pc = "timedout"
    /\ pl.requests = 3
    /\ pl.intervalMs = 1

(***************************************************************************)
(* Claims about the IDs of a create response                               *)
(***************************************************************************)
\* the objects of the response: the elements of a top-level array or of the
\* array under data, or the single object itself
ResponseObjects(data) ==
    IF data.shape \in {"array", "wrapped"}
    THEN {data.items[k] : k \in 1..Len(data.items)} \ {NotAnObject}
    ELSE IF data.shape = "object" THEN {data.top} ELSE {}

HasId(v) == v \notin {UNDEFINED, <<>>}
ClaimedTaskIds(data) ==
    {o.task_id : o \in {x \in ResponseObjects(data) : HasId(x.task_id)}}
    \cup {o.id : o \in {x \in ResponseObjects(data) :
                           HasId(x.id) /\ ~HasId(x.clip_id) /\ ~HasId(x.song_id)}}
ClaimedClipIds(data) ==
    {o.clip_id : o \in {x \in ResponseObjects(data) : HasId(x.clip_id)}}
    \cup {o.song_id : o \in {x \in ResponseObjects(data) : HasId(x.song_id)}}

NoDuplicates(seq) == \A i, j \in 1..Len(seq) : seq[i] = seq[j] => i = j
Values(seq) == {seq[k] : k \in 1..Len(seq)}

\* C21: on both submission paths the task IDs sent are every object's
\* non-empty task_id plus its non-empty id when it has neither a clip_id nor
\* a song_id, the clip IDs sent are every object's non-empty clip_id and
\* song_id, and neither list holds a value twice.
C21_IdListsNormalized ==
    sb.pc = "done" =>
        /\ Values(sb.task_ids) = ClaimedTaskIds(sb.data)
        /\ Values(sb.clip_ids) = ClaimedClipIds(sb.data)
        /\ NoDuplicates(sb.task_ids)
        /\ NoDuplicates(sb.clip_ids)

\* a 202 response for a body with an array under data in which a task ID and
\* a clip ID occur more than once
C21_Witness ==
    /\ sb.pc = "done"
    /\ sb.path = "song"
    /\ sb.status = 202
    /\ sb.data.shape = "wrapped"
    /\ Len(PushedTaskIds(sb.data.items)) > Len(sb.task_ids)
    /\ Len(PushedClipIds(sb.data.items)) > Len(sb.clip_ids)
    /\ Len(sb.task_ids) = 2

\* C22: whenever a 2xx create response yields neither a task ID nor a clip
\* ID, the response to the caller carries the raw body, on the song path and
\* on the per-story path of the podcast.
C22_RawSurfaced ==
    (sb.pc = "done" /\ sb.task_ids = <<>> /\ sb.clip_ids = <<>>) => sb.raw = sb.data

\* C23: every response of /api/generate-song has status 202, 400, 500, 502 or
\* 503, whatever the synthesis service answers to the create call.
C23_SubmissionStatuses ==
    gsPc = "done" => gsStatus \in {202, 400, 500, 502, 503}

\* C24: the status endpoint answers 500 without a key, 400 without any
\* identifier, 502 when the upstream service fails (a non-2xx answer to the
\* list call, a network error), and otherwise 200.
C24_StatusEndpointCodes ==
    stPc = "done" =>
        /\ stStatus \in {200, 400, 500, 502}
        /\ stStatus = 500 <=> ~envSunoKey
        /\ stStatus = 400 <=> (envSunoKey /\ stTaskIds = <<>> /\ stClipIds = <<>>)
        /\ stError = "Suno task fetch failed" => stStatus = 502

\* the positions of the listed jobs whose clip_id was asked for
AskedFor == {i \in 1..Len(stListed) : \E k \in 1..Len(stClipIds) :
                                          stListed[i].clip_id = stClipIds[k]}

\* C25: a request with clip IDs only sends exactly one upstream call, the
\* list call, and a 200 response holds exactly the upstream jobs whose
\* clip_id is among the requested clip IDs, in upstream order.
C25_ClipPathFilters ==
    (stPc = "done" /\ envSunoKey /\ stTaskIds = <<>> /\ stClipIds # <<>>) =>
        /\ stListCalls = 1
        /\ stTaskCalls = 0
        /\ stStatus = 200 =>
              /\ Len(stData) = Cardinality(AskedFor)
              /\ \A i \in AskedFor :
                    stData[Cardinality({j \in AskedFor : j <= i})] = StatusRecord(stListed[i])

\* two of four listed jobs were asked for, and upstream lists them in the
\* opposite order of the request
C25_Witness ==
    /\ stPc = "done"
    /\ stStatus = 200
    /\ stTaskIds = <<>>
    /\ stClipIds = <<C1id, C3id>>
    /\ Len(stListed) = 4
    /\ Len(stData) = 3
    /\ stData[1].clip_id = C3id
    /\ stData[2].clip_id = C1id

(***************************************************************************)
(* Claims about the feed aggregator                                        *)
(***************************************************************************)
HeadlineOf(item) == stripHtml(extractTagValue(item.title))

\* the positions of the feed's items that bear a headline
Bearing(xml) == {i \in 1..Len(xml) : HeadlineOf(xml[i]) # <<>>}
RankIn(set, i) == Cardinality({j \in set : j <= i})

\* C28: parseFeed returns, in document order, the first headline-bearing
\* items of the feed, at most limit of them: every story has a non-empty
\* headline and no headline-bearing item is passed over for a later one.
C28_ParseFeedPrefix ==
    pf.pc = "returned" =>
        /\ Len(pf.items) <= pf.limit
        /\ \A k \in 1..Len(pf.items) : pf.items[k].headline # <<>>
        /\ Len(pf.items) = IF Cardinality(Bearing(pf.xml)) < pf.limit
                           THEN Cardinality(Bearing(pf.xml)) ELSE pf.limit
        /\ \A i \in Bearing(pf.xml) :
              RankIn(Bearing(pf.xml), i) <= Len(pf.items) =>
                 /\ pf.items[RankIn(Bearing(pf.xml), i)].headline = HeadlineOf(pf.xml[i])
                 /\ pf.items[RankIn(Bearing(pf.xml), i)].link = extractTagValue(pf.xml[i].link)

\* a feed of three items whose first has no headline after stripping, read
\* with limit 1: the second item is the one returned
C28_Witness ==
    /\ pf.pc = "returned"
    /\ pf.limit = 1
    /\ Len(pf.xml) = 3
    /\ pf.xml[1].title # NoTag
    /\ Bearing(pf.xml) = {2, 3}
    /\ Len(pf.items) = 1

Merged == nw.pc \in {"loop", "done"}

\* C26: fetchTopNews never fails: a source whose fetch fails contributes no
\* story, and the stories of the other sources are returned all the same.
C26_AggregateNeverFails ==
    /\ nw.pc # "crashed"
    /\ \A s \in SourceIdx : nw.src[s].st # "lost"
    /\ Merged => \A s \in SourceIdx : nw.src[s].failed => nw.src[s].stories = <<>>

\* C27: the list fetchTopNews returns exists only once every source has
\* completed, and it is the stories of the sources in the order of
\* NEWS_SOURCES, each source's in feed order, whatever the order in which the
\* fetches completed.
C27_MergedInSourceOrder ==
    /\ nw.pc = "fetching" => (nw.stories = <<>> /\ nw.status = 0)
    /\ Merged =>
          /\ \A s \in SourceIdx : nw.src[s].st = "settled"
          /\ nw.stories = Flatten([s \in SourceIdx |->
                                     SourceStories(nw.src[s].xml, nw.limit, s)])

\* the second source completed first, and both brought stories
C27_Witness ==
    /\ Merged
    /\ nw.order = <<2, 1>>
    /\ nw.src[1].stories # <<>>
    /\ nw.src[2].stories # <<>>
    /\ nw.stories[1].source = NEWS_SOURCES[1]

\* C29: the response of /api/news-headlines never holds more stories than
\* the limit the request asked for.
C29_WithinRequestedLimit ==
    nw.pc = "done" => Len(nw.unique) <= nw.reqLimit

\* the uniqueness key: the link when there is one, else source and headline
UniquenessKey(story) ==
    IF story.link # <<>> THEN <<"link", story.link>>
    ELSE <<"story", story.source, story.headline>>
FirstWithKey(key) ==
    CHOOSE i \in 1..Len(nw.stories) :
        /\ UniquenessKey(nw.stories[i]) = key
        /\ \A j \in 1..(i - 1) : UniquenessKey(nw.stories[j]) # key

\* C30: in a response every story has a non-empty headline, no two stories
\* share a uniqueness key, and a story of the response is the first of the
\* aggregated stories that carry its key.
C30_UniqueStories ==
    nw.pc = "done" =>
        /\ \A k \in 1..Len(nw.unique) : nw.unique[k].headline # <<>>
        /\ \A k, m \in 1..Len(nw.unique) :
              UniquenessKey(nw.unique[k]) = UniquenessKey(nw.unique[m]) => k = m
        /\ \A k \in 1..Len(nw.unique) :
              /\ \E i \in 1..Len(nw.stories) :
                    UniquenessKey(nw.stories[i]) = UniquenessKey(nw.unique[k])
              /\ nw.unique[k] =
                    [headline |-> nw.stories[FirstWithKey(UniquenessKey(nw.unique[k]))].headline,
                     source |-> nw.stories[FirstWithKey(UniquenessKey(nw.unique[k]))].source,
                     link |-> nw.stories[FirstWithKey(UniquenessKey(nw.unique[k]))].link]

\* a response from which a second story with the same link and a second
\* story with the same source and headline were left out
C30_Witness ==
    /\ nw.pc = "done"
    /\ nw.status = 200
    /\ Len(nw.unique) = 4
    /\ \E i, j \in 1..Len(nw.stories) :
          i < j /\ nw.stories[i].link # <<>> /\ nw.stories[i].link = nw.stories[j].link
                /\ nw.stories[i].headline # nw.stories[j].headline
    /\ \E i, j \in 1..Len(nw.stories) :
          i < j /\ nw.stories[i].link = <<>> /\ nw.stories[i] = nw.stories[j]

(***************************************************************************)
(* Claims about the article extractor                                      *)
(***************************************************************************)
\* the candidates as the contract lists them: the article, the main and the
\* body block where present, and the whole page only when there is none
ContractCandidates(page) ==
    IF ~page.article.present /\ ~page.main.present /\ ~page.body.present
    THEN <<page.paras>>
    ELSE (IF page.article.present THEN <<BlockParas(page, page.article)>> ELSE <<>>)
         \o (IF page.main.present THEN <<BlockParas(page, page.main)>> ELSE <<>>)
         \o (IF page.body.present THEN <<BlockParas(page, page.body)>> ELSE <<>>)
Exceeds(paras, n) == CandidateOf(paras).len > n
GoodCandidates(page) ==
    {k \in 1..Len(ContractCandidates(page)) :
        Exceeds(ContractCandidates(page)[k], MIN_CANDIDATE_CHARS)}

\* C31: on a 2xx page the call returns the text of the first candidate, in
\* the order article, main, body (the whole page only when none is there),
\* that exceeds 400 characters, else the text of the whole page when that
\* exceeds 200 characters, else it fails; on a non-2xx answer it fails with
\* the status and extracts nothing; a returned text exceeds 200 characters.
C31_ArticleExtraction ==
    /\ (ar.pc \in {"returned", "threw"} /\ ar.status = 200) =>
          IF GoodCandidates(ar.page) # {}
          THEN /\ ar.pc = "returned"
               /\ \E k \in GoodCandidates(ar.page) :
                     /\ \A j \in GoodCandidates(ar.page) : k <= j
                     /\ ar.result = CandidateOf(ContractCandidates(ar.page)[k])
          ELSE IF Exceeds(ar.page.paras, MIN_FALLBACK_CHARS)
          THEN ar.pc = "returned" /\ ar.result = CandidateOf(ar.page.paras)
          ELSE ar.pc = "threw" /\ ar.error = "Unable to extract article content"
    /\ (ar.pc \in {"returned", "threw"} /\ ar.status # 200) =>
          (ar.pc = "threw" /\ ar.result = NoText)
    /\ ar.pc = "returned" => ar.result.len > MIN_FALLBACK_CHARS

\* a page with an article block that is too short and no body: the text of
\* the whole page, more than 400 characters, is returned
C31_Witness ==
    /\ ar.pc = "returned"
    /\ ar.page.article.present
    /\ ~ar.page.body.present
    /\ ~Exceeds(BlockParas(ar.page, ar.page.article), MIN_CANDIDATE_CHARS)
    /\ ar.result.len > MIN_CANDIDATE_CHARS
    /\ Len(ar.result.text) = 2

(***************************************************************************)
(* Claims about the relay's error answers                                  *)
(***************************************************************************)
\* C32: when the upstream answer is non-2xx or has no body, the client gets
\* an error status outside 2xx and nothing is streamed.
C32_RelayErrorNever2xx ==
    (rlPc = "done" /\ rlFetches > 0 /\ ~rlStreamed) =>
        ~HttpOk(rlStatus)

(***************************************************************************)
(* Claims about normalizeSunoAudioUrl                                      *)
(***************************************************************************)
NzIsString == nz.value # UNDEFINED /\ Trim(nz.value) # <<>>
NzParses == NzIsString /\ Trim(nz.value)[1] # "/" /\ URLParse(Trim(nz.value)).ok
NzRest ==
    /\ (nz.pc # "idle" /\ NzParses) => URLParse(nz.once).ok /\ nz.once = Trim(nz.once)
    /\ (nz.pc # "idle" /\ NzIsString /\ Trim(nz.value)[1] # "/" /\ ~NzParses) =>
          nz.once = Trim(nz.value)
    /\ nz.pc = "twice" => nz.twice = nz.once

\* C33 as stated: an input that starts with '/' is returned unchanged, an
\* absolute URL gives a valid absolute URL, an input that does not parse is
\* returned trimmed, and a second application changes nothing.
C33_AsStated ==
    /\ (nz.pc # "idle" /\ nz.value # UNDEFINED /\ nz.value # <<>> /\ nz.value[1] = "/") =>
          nz.once = nz.value
    /\ NzRest

\* C33, amended: an input whose trimmed form starts with '/' is returned
\* trimmed; the other three parts as stated.
C33_Normalize ==
    /\ (nz.pc # "idle" /\ NzIsString /\ Trim(nz.value)[1] = "/") => nz.once = Trim(nz.value)
    /\ NzRest

\* an input that does not parse and has white space around it went through
\* both applications
C33_Witness ==
    /\ nz.pc = "twice"
    /\ NzIsString
    /\ ~NzParses
    /\ Trim(nz.value)[1] # "/"
    /\ nz.value # Trim(nz.value)

(***************************************************************************)
(* Claims about the deprecated audio host                                  *)
(***************************************************************************)
\* C34: the status endpoint leaves the deprecated host audiopipe.suno.ai in
\* its records, and the record pollForAudio returns for playback has it
\* rewritten: its audio URL never names the deprecated host.
C34_PlaybackHostRewritten ==
    (pl.pc = "returned" /\ URLParse(pl.result.audio_url).ok) =>
        MigratedHost(URLParse(pl.result.audio_url).hostname) = <<>>

(***************************************************************************)
(* Claims about the length of a synthesis call                             *)
(***************************************************************************)
SynRunning == synPc \in {"call", "inflight", "sleep"}
SynEnded == synPc \in {"returned", "threw"}
TotalRequests == Len(SelectSeq(Flatten(synTrace), LAMBDA x : x = 0))

\* what holds at every moment of a synthesis call: no model has more than
\* `attempts` requests, the models requested are a prefix of the list, and
\* no model past the current one has been requested
SynBounded ==
    /\ \A m \in ModelIdx : Requests(m) <= AttemptsArg
    /\ TotalRequests <= Len(LYRIC_MODELS) * AttemptsArg
    /\ \A m \in ModelIdx : Requested(m) => \A j \in 1..(m - 1) : Requested(j)
    /\ \A m \in ModelIdx : m > synModel => ~Requested(m)

\* C35: when every model request is answered or times out, a synthesis call
\* ends, returning or failing; it makes at most `attempts` requests per
\* model and |models| x attempts in all, and it goes through the models in
\* list order without coming back to one.
C35_SynthesisBounded ==
    /\ SynRunning ~> SynEnded
    /\ []SynBounded
    /\ [][synModel' >= synModel]_vars

\* a call that used every attempt on every model, with more than one
\* attempt allowed
C35_Witness ==
    /\ SynEnded
    /\ AttemptsArg > 1
    /\ \A m \in ModelIdx : Requests(m) = AttemptsArg
    /\ TotalRequests = Len(LYRIC_MODELS) * AttemptsArg

(***************************************************************************)
(* Claims about empty model answers                                        *)
(***************************************************************************)
\* the request in flight has just been answered, with a 2xx response whose
\* content is empty or missing, or with a network failure
AnsweredEmpty ==
    /\ synPc = "inflight" /\ synPc' # "inflight"
    /\ synLast'[synModel].kind = "http"
    /\ HttpOk(synLast'[synModel].status)
    /\ ~synLast'[synModel].text
AnsweredNetwork ==
    /\ synPc = "inflight" /\ synPc' # "inflight"
    /\ synLast'[synModel].kind = "network"
\* the loop waits for the backoff on the same model and attempt
WaitsOnSameModel ==
    /\ synPc' = "sleep"
    /\ synModel' = synModel
    /\ synI' = synI
    /\ synDelay' = synDelay
\* the loop leaves the model
LeavesModel == synPc' # "sleep" /\ (synModel' = synModel + 1 \/ synPc' \in {"returned", "threw"})
AfterFailure == IF synI < AttemptsArg - 1 THEN WaitsOnSameModel ELSE LeavesModel

\* C36: a 2xx model response with empty or missing content is handled as a
\* network failure is: with attempts remaining the loop waits for the
\* backoff and then requests the same model again, and only on the last
\* attempt does it leave the model.
C36_EmptyContentRetried ==
    [][/\ AnsweredEmpty => AfterFailure
       /\ AnsweredNetwork => AfterFailure
       /\ (synPc = "sleep" /\ synPc' # "sleep") =>
              (synPc' = "call" /\ synModel' = synModel /\ synI' = synI + 1)]_vars

\* a model answered 2xx without content, was waited for and has been asked
\* a second time
C36_Witness ==
    \E m \in ModelIdx :
        /\ synModel = m
        /\ synPc = "inflight"
        /\ synTrace[m] = <<0, INITIAL_DELAY, 0>>
        /\ synLast[m].kind = "http"
        /\ HttpOk(synLast[m].status)
        /\ ~synLast[m].text

(***************************************************************************)
(* Claims about a per-ID query that throws                                 *)
(***************************************************************************)
\* the query of the i-th task ID has settled with a network failure
NetworkFailed(i) == stResults[i].kind # "none" /\ stResults[i].status = 0

\* C37: when a per-ID status query throws on a network failure, the status
\* call is answered 502 without any record, whatever the other queries
\* returned: the failure is not dropped as a non-2xx answer is.
C37_ThrownQueryFailsCall ==
    (\E i \in 1..Len(stResults) : NetworkFailed(i)) =>
        /\ stPc = "done"
        /\ stStatus = 502
        /\ stData = <<>>

\* one query was answered 401 and then the other failed at network level
C37_Witness ==
    /\ stPc = "done"
    /\ \E i, j \in 1..Len(stResults) :
          /\ NetworkFailed(i)
          /\ stResults[j].authError
          /\ stResults[j].status = 401

(***************************************************************************)
(* Claims about a status request with task IDs and clip IDs                *)
(***************************************************************************)
BothSupplied == stPc # "idle" /\ Len(stTaskIds) > 0 /\ Len(stClipIds) > 0
\* the rows of the per-ID queries answered 2xx, in the order of the queries
CompletedRows ==
    Flatten([i \in 1..Len(stResults) |-> IF stResults[i].ok THEN stResults[i].data ELSE <<>>])

\* C38: when task IDs and clip IDs are both supplied, one query per
\* supplied task ID is sent to the per-task endpoint, duplicates included,
\* the list call is never made, and the clip IDs do not filter the records:
\* a 200 response carries every row of every answered query.
C38_TaskIdsTakePrecedence ==
    BothSupplied =>
        /\ stTaskCalls = Len(stTaskIds)
        /\ stListCalls = 0
        /\ stPc # "listing"
        /\ (stPc = "done" /\ stStatus = 200) =>
              /\ Len(stData) >= Len(CompletedRows)
              /\ \A k \in 1..Len(CompletedRows) :
                    stData[k].clip_id = CompletedRows[k].clip_id

\* the same task ID twice and a clip ID: two queries, and the response has a
\* record of a clip that was not asked for
C38_Witness ==
    /\ BothSupplied
    /\ stPc = "done"
    /\ stStatus = 200
    /\ Len(stTaskIds) = 2
    /\ stTaskIds[1] = stTaskIds[2]
    /\ stTaskCalls = 2
    /\ \E k \in 1..Len(stData) : stData[k].clip_id \notin Range(stClipIds)

(***************************************************************************)
(* Claims about the stories of a plan                                      *)
(***************************************************************************)
\* C39: the 3 selections of a successful plan are 3 different candidate
\* stories: no headline appears twice among them.
C39_DistinctSelections ==
    PlanSucceeded =>
        \A j, k \in 1..Len(pd.planned) :
            j # k => pd.planned[j].headline # pd.planned[k].headline

(***************************************************************************)
(* Claims about the selections of a full-phase episode                     *)
(***************************************************************************)
FullEpisode == pd.pc = "done" /\ pd.status = 200 /\ ~pd.plan

\* C40: the selections of a successful full-phase response are, in order,
\* some of the plan's 3 stories; a story is among them only if its article
\* text was extracted, its summarization into lyrics succeeded and its
\* create call was answered 2xx, so every listed selection has article text.
C40_ListedStoriesComplete ==
    FullEpisode =>
        /\ Len(pd.selections) <= 3
        /\ Len(pd.listed) = Len(pd.selections)
        /\ \A j \in 1..Len(pd.listed) :
              /\ pd.listed[j] \in 1..Len(pd.selected)
              /\ j > 1 => pd.listed[j - 1] < pd.listed[j]
              /\ pd.selections[j].headline = pd.selected[pd.listed[j]].headline
              /\ pd.deep[pd.listed[j]].articleContent # <<>>
              /\ pd.listed[j] \notin pd.articleFailed
              /\ pd.listed[j] \notin pd.lyricsFailed
              /\ pd.listed[j] \notin pd.createFailed
              /\ pd.selections[j].articleContent # <<>>

====
